---- MODULE Spec2Model ----
(***************************************************************************)
(* Model of the browser extension: the element-description engine of the  *)
(* content script (src/src/content/content_script.ts: role and            *)
(* accessible-name resolution, selector candidates, element key,          *)
(* warnings), the overlay editor it opens, and the site-to-project        *)
(* mapping of the options page (src/src/options/options.ts), the target   *)
(* choice and capture-and-copy handler of the content script, the Jira    *)
(* issue handler of the service worker (src/src/sw/service_worker.ts) and *)
(* the recorder of the offscreen document (src/unnamed/part_000).         *)
(*                                                                         *)
(* A JavaScript string is a sequence of one-character strings, so that    *)
(* every regular-expression replace, trim, split and slice of the source  *)
(* is computed character by character.  The value null is the one         *)
(* sequence that is no string: <<"null">>.                                *)
(***************************************************************************)
EXTENDS Integers, Sequences, FiniteSets, TLC

VARIABLES
    element,    \* the DOM element the page shows and the user right-clicks
    pc,         \* "idle": no description built; "built": buildCapture returned
    capture,    \* the description buildCapture returned last
    window,     \* what buildCapture reads besides the tree: title, selection
    kept,       \* the description the caller was handed before, and its element
    editor,     \* the overlay: textarea, Copy button, clipboard
    options,    \* the options page: mapping textarea, stored mapping
    content,    \* the content script's page: document tree, focus, last
                \* right-clicked element, the capture-and-copy request
    worker,     \* the service worker's jira:create-issue request
    offscreen   \* the offscreen document: recorder, chunks, recordings

\* The variables of the description engine, of the overlay, of the options
\* page, and of the message handlers of the three scripts.
descriptionVars == <<element, pc, capture, window, kept>>

overlayVars == <<editor>>

optionsVars == <<options>>

messageVars == <<content, worker, offscreen>>

vars == <<descriptionVars, overlayVars, optionsVars, messageVars>>

----------------------------------------------------------------------------
(* Bounds of the model                                                     *)

\* Most page edits (attributes set, text set, label wrapped, element moved)
\* applied to the bare element before it is captured.
MaxEdits == 2

\* How far the long texts run past the limit they are cut at (of the
\* element key, of the HTML snippet).
LongExtra == 3

----------------------------------------------------------------------------
(* JavaScript values and strings                                           *)

null == <<"null">>

\* JavaScript truthiness of a string-or-null value: null and "" are falsy.
Truthy(v) == v # null /\ v # <<>>

\* a || b on string-or-null values.
Or(a, b) == IF Truthy(a) THEN a ELSE b

LowerLetters == <<"a", "b", "c", "d", "e", "f", "g", "h", "i", "j", "k", "l", "m",
                  "n", "o", "p", "q", "r", "s", "t", "u", "v", "w", "x", "y", "z">>
UpperLetters == <<"A", "B", "C", "D", "E", "F", "G", "H", "I", "J", "K", "L", "M",
                  "N", "O", "P", "Q", "R", "S", "T", "U", "V", "W", "X", "Y", "Z">>
Digits == <<"0", "1", "2", "3", "4", "5", "6", "7", "8", "9">>

Range(s) == {s[i] : i \in DOMAIN s}

LowerSet == Range(LowerLetters)
UpperSet == Range(UpperLetters)
DigitSet == Range(Digits)

\* The characters \s matches and trim() removes (those the model writes).
SpaceSet == {" ", "\t", "\n", "\r", "\f"}

IsLower(c) == c \in LowerSet
IsUpper(c) == c \in UpperSet
IsDigit(c) == c \in DigitSet
IsSpace(c) == c \in SpaceSet

Min(a, b) == IF a < b THEN a ELSE b

\* String.prototype.toLowerCase, character by character.
LowerOf ==
    [c \in UpperSet |->
        LowerLetters[CHOOSE i \in DOMAIN UpperLetters : UpperLetters[i] = c]]

LowerChar(c) == IF IsUpper(c) THEN LowerOf[c] ELSE c

toLowerCase(s) == [i \in DOMAIN s |-> LowerChar(s[i])]

\* s.slice(0, n)
Slice(s, n) == SubSeq(s, 1, Min(Len(s), n))

\* The character classes of the regular expressions of the source, each
\* under the text it has there.
Matches(class, c) ==
    CASE class = "\\s" -> IsSpace(c)
      [] class = "_" -> c = "_"
      [] class = "'" -> c = "'"
      [] class = "[^a-zA-Z0-9_-]" ->
            ~(IsLower(c) \/ IsUpper(c) \/ IsDigit(c) \/ c \in {"_", "-"})
      [] class = "[^a-zA-Z0-9\\s_-]" ->
            ~(IsLower(c) \/ IsUpper(c) \/ IsDigit(c) \/ IsSpace(c) \/ c \in {"_", "-"})

\* The indices 1..Len(s) in order.
Indices(s) == [k \in 1..Len(s) |-> k]

\* s.replace(/<class>+/g, r) for a one-character r: every maximal run of
\* characters of the class becomes that character.  Of a run only its first
\* character is kept, and replaced.
ReplaceRuns(s, class, r, i) ==
    LET heads == SelectSeq(Indices(s),
                           LAMBDA k : k >= i /\ ~(/\ Matches(class, s[k])
                                                   /\ k > 1
                                                   /\ Matches(class, s[k - 1])))
    IN  [j \in DOMAIN heads |->
            IF Matches(class, s[heads[j]]) THEN r[1] ELSE s[heads[j]]]

\* s.replace(/<class>/g, r) for a one-character r: every character of the
\* class becomes that character.
ReplaceEach(s, class, r, i) ==
    [k \in DOMAIN s |-> IF k >= i /\ Matches(class, s[k]) THEN r[1] ELSE s[k]]

\* s.replace(/<class>/g, (match) => `\\${match}`) on the characters lo..hi
\* of s: every character of the class gets a backslash before it.
RECURSIVE EscapeRange(_, _, _, _)
EscapeRange(s, class, lo, hi) ==
    IF lo > hi THEN <<>>
    ELSE IF lo = hi
         THEN (IF Matches(class, s[lo]) THEN <<"\\", s[lo]>> ELSE <<s[lo]>>)
         ELSE LET mid == (lo + hi) \div 2
              IN  EscapeRange(s, class, lo, mid) \o EscapeRange(s, class, mid + 1, hi)

EscapeEach(s, class, i) == EscapeRange(s, class, i, Len(s))

\* String.prototype.trim: from the first character that is no whitespace to
\* the last one.
Trim(s) ==
    IF \A i \in DOMAIN s : IsSpace(s[i]) THEN <<>>
    ELSE LET lo == CHOOSE i \in DOMAIN s :
                      ~IsSpace(s[i]) /\ \A j \in 1..(i - 1) : IsSpace(s[j])
             hi == CHOOSE i \in DOMAIN s :
                      ~IsSpace(s[i]) /\ \A j \in (i + 1)..Len(s) : IsSpace(s[j])
         IN  SubSeq(s, lo, hi)

\* s.split(/\s+/): the pieces between maximal runs of whitespace, the empty
\* pieces at the ends included.
SplitWs(s) ==
    LET starts == SelectSeq(Indices(s),
                            LAMBDA k : ~IsSpace(s[k]) /\ (k = 1 \/ IsSpace(s[k - 1])))
        ends == SelectSeq(Indices(s),
                          LAMBDA k : ~IsSpace(s[k]) /\ (k = Len(s) \/ IsSpace(s[k + 1])))
        words == [j \in DOMAIN starts |-> SubSeq(s, starts[j], ends[j])]
    IN  IF s = <<>> THEN << <<>> >>
        ELSE (IF IsSpace(s[1]) THEN << <<>> >> ELSE <<>>)
             \o words
             \o (IF IsSpace(s[Len(s)]) THEN << <<>> >> ELSE <<>>)

\* s.split(sep) for a one-character separator: the pieces between the
\* separators, the empty ones included.
SplitBy(s, sep) ==
    LET seps == SelectSeq(Indices(s), LAMBDA k : s[k] = sep)
    IN  [j \in 1..(Len(seps) + 1) |->
            SubSeq(s,
                   IF j = 1 THEN 1 ELSE seps[j - 1] + 1,
                   IF j = Len(seps) + 1 THEN Len(s) ELSE seps[j] - 1)]

\* Array.prototype.join
RECURSIVE Join(_, _)
Join(parts, sep) ==
    IF parts = <<>> THEN <<>>
    ELSE IF Len(parts) = 1 THEN parts[1]
         ELSE parts[1] \o sep \o Join(Tail(parts), sep)

\* Array.prototype.filter(Boolean) on an array of strings.
NonEmptyOnly(parts) == SelectSeq(parts, LAMBDA p : p # <<>>)

\* `${n}` for a natural number.
RECURSIVE NatToString(_)
NatToString(n) ==
    IF n < 10 THEN <<Digits[n + 1]>>
    ELSE NatToString(n \div 10) \o <<Digits[(n % 10) + 1]>>

\* normalizeWhitespace as it would be with the replace forgotten.
normalizeWhitespaceTrimOnly(value) == Trim(value)

normalizeWhitespace(value) == Trim(ReplaceRuns(value, "\\s", <<" ">>, 1))

\* escapeQuotes as it would be with the replace forgotten.
escapeQuotesNone(value) == value

\* value.replace(/'/g, "\\'"): a backslash before every quote.
escapeQuotes(value) == EscapeEach(value, "'", 1)

\* cssEscape as it would be with the replace forgotten.
cssEscapeNone(value) == value

cssEscape(value) == EscapeEach(value, "[^a-zA-Z0-9_-]", 1)

----------------------------------------------------------------------------
(* The document                                                           *)

KeyLimit == 40

\* A text whose element key has to be cut: words of two letters, longer in
\* all than the key limit.
LongText == [i \in 1..(KeyLimit + LongExtra) |-> IF i % 3 = 0 THEN " " ELSE "a"]

\* The other elements of the page, in document order: elements that
\* aria-labelledby refers to, labels that name a control by `for`, and a span
\* whose text the captured element may repeat.
Page ==
    << [tagName |-> <<"S", "P", "A", "N">>, id |-> <<"l", "1">>, htmlFor |-> <<>>, textContent |-> <<"A">>],
       [tagName |-> <<"S", "P", "A", "N">>, id |-> <<"l", "2">>, htmlFor |-> <<>>, textContent |-> <<" ", "B", "\n">>],
       [tagName |-> <<"S", "P", "A", "N">>, id |-> <<"l", "3">>, htmlFor |-> <<>>, textContent |-> <<>>],
       [tagName |-> <<"L", "A", "B", "E", "L">>, id |-> <<>>, htmlFor |-> <<"e", "m", "a", "i", "l">>, textContent |-> <<" ", "E", "m", "a", "i", "l", "\n", " ", "a", "d", "d", "r", "e", "s", "s", " ">>],
       [tagName |-> <<"L", "A", "B", "E", "L">>, id |-> <<>>, htmlFor |-> <<"s", "p">>, textContent |-> <<" ">>],
       [tagName |-> <<"L", "A", "B", "E", "L">>, id |-> <<>>, htmlFor |-> <<"m", "t">>, textContent |-> <<>>],
       [tagName |-> <<"S", "P", "A", "N">>, id |-> <<>>, htmlFor |-> <<>>, textContent |-> <<"D", "e", "l", "e", "t", "e">>] >>

\* Tag names as the DOM reports them: upper case for HTML elements, as
\* written for SVG elements.
HtmlTagNames ==
    { <<"B", "U", "T", "T", "O", "N">>, <<"A">>, <<"I", "M", "G">>, <<"I", "N", "P", "U", "T">>, <<"T", "E", "X", "T", "A", "R", "E", "A">>, <<"S", "E", "L", "E", "C", "T">>,
      <<"D", "I", "V">>, <<"S", "P", "A", "N">>, <<"L", "A", "B", "E", "L">> }

TagNames == HtmlTagNames \cup { <<"s", "v", "g">> }

\* Where the element sits: the number of its preceding siblings of the same
\* tag (before), whether it has a parent at all, and its ancestors from the
\* parent up to the root.  ownText is the text an ancestor holds besides the
\* element's.  No sibling of the same tag follows the element or any of its
\* ancestors, so that one with none before it is the only child of its tag.
AncestorWithId(tag, id, cls, before, own) ==
    [tagName |-> tag, id |-> id, className |-> cls, before |-> before, ownText |-> own]

Ancestor(tag, cls, before, own) == AncestorWithId(tag, <<>>, cls, before, own)

BodyAndRoot == << Ancestor(<<"B", "O", "D", "Y">>, <<>>, 0, <<>>), Ancestor(<<"H", "T", "M", "L">>, <<>>, 0, <<>>) >>

InBody == [before |-> 0, ancestors |-> BodyAndRoot]

Places ==
    { InBody,
      [before |-> 1,
       ancestors |-> << Ancestor(<<"L", "I">>, <<>>, 2, <<>>),
                        Ancestor(<<"U", "L">>, <<"m", "e", "n", "u">>, 0, <<>>),
                        AncestorWithId(<<"D", "I", "V">>, <<"m", "a", "i", "n">>, <<"c", "a", "r", "d", " ", "w", "i", "d", "e", " ", "x", ":", "y">>, 0, <<>>) >>
                        \o BodyAndRoot],
      [before |-> 0, ancestors |-> <<>>],
      [before |-> 0, ancestors |-> << Ancestor(<<"L", "A", "B", "E", "L">>, <<>>, 0, <<"E", "m", "a", "i", "l", " ">>) >> \o BodyAndRoot],
      [before |-> 0, ancestors |-> << Ancestor(<<"L", "A", "B", "E", "L">>, <<>>, 0, <<>>) >> \o BodyAndRoot],
      [before |-> 0, ancestors |-> << Ancestor(<<"L", "A", "B", "E", "L">>, <<>>, 1, <<" ">>) >> \o BodyAndRoot] }

\* The attributes the description reads, and the values the page gives them.
AttrNames ==
    { "role", "aria-label", "aria-labelledby", "alt", "placeholder", "title",
      "type", "href", "src", "id", "data-testid", "data-test-id", "class" }

AttrValues(n) ==
    CASE n = "role"            -> { <<>>, <<"t", "a", "b">>, <<"T", "a", " ", "b", "'", "s">> }
      [] n = "aria-label"      -> { <<>>, <<" ">>, <<"A">>, <<"S", "u", "b", "m", "i", "t", " ", "O", "r", "d", "e", "r">>, <<"S", "i", "g", "n", "-", "i", "n">>,
                                     <<"E", "l", "e", "m", "e", "n", "t", " ", "e", "l", "e", "m", "e", "n", "t">> }
      [] n = "aria-labelledby" -> { <<>>, <<"l", "1">>, <<" ", "l", "1", " ", " ", "l", "2">>, <<"n", "o", "p", "e", " ", "l", "3">> }
      [] n = "alt"             -> { <<>>, <<"L", "o", "g", "o", " ", "7">> }
      [] n = "placeholder"     -> { <<>>, <<"B">>, <<" ", "i", "t", "'", "s", "\n">> }
      [] n = "title"           -> { <<"T", " ", "4", "2">>, <<"!", "'">> }
      [] n = "type"            -> { <<"c", "h", "e", "c", "k", "b", "o", "x">>, <<"r", "a", "d", "i", "o">>, <<"s", "u", "b", "m", "i", "t">>, <<"b", "u", "t", "t", "o", "n">>, <<"E", "m", "a", "i", "l">>, <<"b", "o", "g", "u", "s">> }
      [] n = "href"            -> { <<>>, <<"/", "x">> }
      [] n = "src"             -> { <<>>, <<"i", "m", "g", "/", "l", "o", "g", "o", ".", "p", "n", "g", "?", "v", "=", "2">> }
      [] n = "id"              -> { <<"s", "u", "b", "m", "i", "t", "-", "b", "t", "n">>, <<"e", "m", "a", "i", "l">>, <<"s", "p">>, <<"m", "t">>, <<"a", ".", "b">> }
      [] n = "data-testid"     -> { <<>>, <<"s", "a", "v", "e">> }
      [] n = "data-test-id"    -> { <<"o", "k", "'", "s">> }
      [] n = "class"           -> { <<"b", "t", "n">>, <<"b", "t", "n", " ", " ", "p", "r", "i", "m", "a", "r", "y", " ", "b", "t", "n", " ", "b", "i", "g">> }

\* type is read of input elements, href of anchors and src of images only.
AttrApplies(n, tag) ==
    /\ n = "type" => tag = <<"I", "N", "P", "U", "T">>
    /\ n = "href" => tag = <<"A">>
    /\ n = "src" => tag = <<"I", "M", "G">>

TextValues ==
    { <<" ">>, <<"D", "e", "l", "e", "t", "e">>, <<"I", "t", "e", "m", " ", "#", "4", "8", "2", "1">>, <<" ", "S", "a", "v", "e", "\n", "\t", " ", "n", "o", "w", " ">>, <<"!", "'">>,
      <<"x", "1", " ", "y", "2">>, <<"#", "4">>, <<"_", " ", "-", "_">>, LongText }

\* Element.getAttribute: null for an attribute the element does not carry.
getAttribute(e, n) == IF n \in DOMAIN e.attrs THEN e.attrs[n] ELSE null

\* The id property: "" without an id attribute.
IdOf(e) == Or(getAttribute(e, "id"), <<>>)

IsHTMLElement(e) == e.tagName \in HtmlTagNames

IsHTMLImageElement(e) == e.tagName = <<"I", "M", "G">>

\* document.getElementById: the first element in document order with that id.
ElementTextById(e, id) ==
    LET hits == {i \in DOMAIN Page : Page[i].id = id}
    IN  IF id = <<>> THEN null
        ELSE IF hits # {}
             THEN Page[CHOOSE i \in hits : \A j \in hits : i <= j].textContent
             ELSE IF IdOf(e) = id THEN e.textContent ELSE null

\* The value a CSS parser reads back from an escaped identifier or string:
\* a backslash makes the next character literal.
RECURSIVE CssUnescape(_, _)
CssUnescape(s, i) ==
    IF i > Len(s) THEN <<>>
    ELSE IF s[i] = "\\" /\ i < Len(s)
         THEN <<s[i + 1]>> \o CssUnescape(s, i + 2)
         ELSE <<s[i]>> \o CssUnescape(s, i + 1)

\* document.querySelector(`label[for="${cssEscape(id)}"]`)?.textContent:
\* null when no label matches.
LabelForText(id) ==
    LET want == CssUnescape(cssEscape(id), 1)
        hits == {i \in DOMAIN Page :
                    Page[i].tagName = <<"L", "A", "B", "E", "L">> /\ Page[i].htmlFor = want}
    IN  IF hits = {} THEN null
        ELSE Page[CHOOSE i \in hits : \A j \in hits : i <= j].textContent

\* element.closest("label")?.textContent: the element itself when it is a
\* label, else its nearest label ancestor, whose text ends with the
\* element's text.
ClosestLabelText(e) ==
    LET up == {i \in DOMAIN e.place.ancestors :
                   e.place.ancestors[i].tagName = <<"L", "A", "B", "E", "L">>}
    IN  IF e.tagName = <<"L", "A", "B", "E", "L">> THEN e.textContent
        ELSE IF up = {} THEN null
        ELSE e.place.ancestors[CHOOSE i \in up : \A j \in up : i <= j].ownText
                 \o e.textContent

\* The type property of an input: the attribute in lower case when it names a
\* known type, else "text".
KnownInputTypes ==
    { <<"c", "h", "e", "c", "k", "b", "o", "x">>, <<"r", "a", "d", "i", "o">>, <<"s", "u", "b", "m", "i", "t">>, <<"b", "u", "t", "t", "o", "n">>, <<"e", "m", "a", "i", "l">>, <<"t", "e", "x", "t">> }

TypeOf(e) ==
    LET t == getAttribute(e, "type")
    IN  IF t # null /\ toLowerCase(t) \in KnownInputTypes
        THEN toLowerCase(t) ELSE <<"t", "e", "x", "t">>

\* The href property of an anchor: "" without the attribute, else the
\* attribute resolved against the document's URL.
DocumentOrigin == <<"h", "t", "t", "p", "s", ":", "/", "/", "s", "h", "o", "p", ".", "t", "e", "s", "t">>

DocumentUrl == DocumentOrigin \o <<"/">>

HrefOf(e) ==
    IF getAttribute(e, "href") = null THEN <<>>
    ELSE DocumentUrl \o getAttribute(e, "href")

\* currentSrc || src of an image: "" without a src attribute or with an
\* empty one, else the attribute resolved against the document's URL.
SrcOf(e) ==
    IF ~Truthy(getAttribute(e, "src")) THEN <<>>
    ELSE DocumentUrl \o getAttribute(e, "src")

\* new URL(src, window.location.href).pathname of a URL of the document's
\* origin: what follows the origin, up to the query or the fragment.
Pathname(url) ==
    LET rest == SubSeq(url, Len(DocumentOrigin) + 1, Len(url))
        stops == {i \in DOMAIN rest : rest[i] \in {"?", "#"}}
    IN  IF stops = {} THEN rest
        ELSE SubSeq(rest, 1, (CHOOSE i \in stops : \A j \in stops : i <= j) - 1)

\* The attributes in the order in which outerHTML writes them, each with its
\* name as text.
AttrOrder ==
    << [name |-> "id", text |-> <<"i", "d">>],
       [name |-> "class", text |-> <<"c", "l", "a", "s", "s">>],
       [name |-> "role", text |-> <<"r", "o", "l", "e">>],
       [name |-> "type", text |-> <<"t", "y", "p", "e">>],
       [name |-> "href", text |-> <<"h", "r", "e", "f">>],
       [name |-> "src", text |-> <<"s", "r", "c">>],
       [name |-> "alt", text |-> <<"a", "l", "t">>],
       [name |-> "title", text |-> <<"t", "i", "t", "l", "e">>],
       [name |-> "placeholder", text |-> <<"p", "l", "a", "c", "e", "h", "o", "l", "d", "e", "r">>],
       [name |-> "aria-label", text |-> <<"a", "r", "i", "a", "-", "l", "a", "b", "e", "l">>],
       [name |-> "aria-labelledby", text |-> <<"a", "r", "i", "a", "-", "l", "a", "b", "e", "l", "l", "e", "d", "b", "y">>],
       [name |-> "data-testid", text |-> <<"d", "a", "t", "a", "-", "t", "e", "s", "t", "i", "d">>],
       [name |-> "data-test-id", text |-> <<"d", "a", "t", "a", "-", "t", "e", "s", "t", "-", "i", "d">>] >>

\* Elements that outerHTML writes without content and end tag.
VoidTagNames == { <<"I", "M", "G">>, <<"I", "N", "P", "U", "T">> }

\* element.outerHTML: the start tag with the attributes, the text and the
\* end tag.  The values of the model hold none of the characters that the
\* serialization escapes (&, <, >, the double quote, U+00A0).
OuterHtml(e) ==
    LET tag == IF IsHTMLElement(e) THEN toLowerCase(e.tagName) ELSE e.tagName
        carried == SelectSeq(AttrOrder, LAMBDA a : a.name \in DOMAIN e.attrs)
        written == [i \in DOMAIN carried |->
                      <<" ">> \o carried[i].text \o <<"=", "\"">>
                          \o e.attrs[carried[i].name] \o <<"\"">>]
    IN  <<"<">> \o tag \o Join(written, <<>>) \o <<">">>
        \o (IF e.tagName \in VoidTagNames THEN <<>>
            ELSE e.textContent \o <<"<", "/">> \o tag \o <<">">>)

----------------------------------------------------------------------------
(* Role and accessible name                                               *)

\* getRole as it would be with the explicit role put in lower case.
getRoleLowered(e) ==
    LET explicit == getAttribute(e, "role")
        tag == toLowerCase(e.tagName)
        type == TypeOf(e)
    IN  IF Truthy(explicit) THEN toLowerCase(explicit)
        ELSE IF tag = <<"b", "u", "t", "t", "o", "n">> THEN <<"b", "u", "t", "t", "o", "n">>
        ELSE IF tag = <<"a">> /\ Truthy(HrefOf(e)) THEN <<"l", "i", "n", "k">>
        ELSE IF tag = <<"i", "m", "g">> THEN <<"i", "m", "g">>
        ELSE IF tag = <<"i", "n", "p", "u", "t">>
             THEN IF type = <<"c", "h", "e", "c", "k", "b", "o", "x">> THEN <<"c", "h", "e", "c", "k", "b", "o", "x">>
                  ELSE IF type = <<"r", "a", "d", "i", "o">> THEN <<"r", "a", "d", "i", "o">>
                  ELSE IF type = <<"s", "u", "b", "m", "i", "t">> \/ type = <<"b", "u", "t", "t", "o", "n">> THEN <<"b", "u", "t", "t", "o", "n">>
                  ELSE <<"t", "e", "x", "t", "b", "o", "x">>
        ELSE IF tag = <<"t", "e", "x", "t", "a", "r", "e", "a">> THEN <<"t", "e", "x", "t", "b", "o", "x">>
        ELSE IF tag = <<"s", "e", "l", "e", "c", "t">> THEN <<"c", "o", "m", "b", "o", "b", "o", "x">>
        ELSE null

\* getRole as it would be with the href test of anchors forgotten.
getRoleAnyAnchor(e) ==
    LET explicit == getAttribute(e, "role")
        tag == toLowerCase(e.tagName)
        type == TypeOf(e)
    IN  IF Truthy(explicit) THEN explicit
        ELSE IF tag = <<"b", "u", "t", "t", "o", "n">> THEN <<"b", "u", "t", "t", "o", "n">>
        ELSE IF tag = <<"a">> THEN <<"l", "i", "n", "k">>
        ELSE IF tag = <<"i", "m", "g">> THEN <<"i", "m", "g">>
        ELSE IF tag = <<"i", "n", "p", "u", "t">>
             THEN IF type = <<"c", "h", "e", "c", "k", "b", "o", "x">> THEN <<"c", "h", "e", "c", "k", "b", "o", "x">>
                  ELSE IF type = <<"r", "a", "d", "i", "o">> THEN <<"r", "a", "d", "i", "o">>
                  ELSE IF type = <<"s", "u", "b", "m", "i", "t">> \/ type = <<"b", "u", "t", "t", "o", "n">> THEN <<"b", "u", "t", "t", "o", "n">>
                  ELSE <<"t", "e", "x", "t", "b", "o", "x">>
        ELSE IF tag = <<"t", "e", "x", "t", "a", "r", "e", "a">> THEN <<"t", "e", "x", "t", "b", "o", "x">>
        ELSE IF tag = <<"s", "e", "l", "e", "c", "t">> THEN <<"c", "o", "m", "b", "o", "b", "o", "x">>
        ELSE null

getRole(e) ==
    LET explicit == getAttribute(e, "role")
        tag == toLowerCase(e.tagName)
        type == TypeOf(e)
    IN  IF Truthy(explicit) THEN explicit
        ELSE IF tag = <<"b", "u", "t", "t", "o", "n">> THEN <<"b", "u", "t", "t", "o", "n">>
        ELSE IF tag = <<"a">> /\ Truthy(HrefOf(e)) THEN <<"l", "i", "n", "k">>
        ELSE IF tag = <<"i", "m", "g">> THEN <<"i", "m", "g">>
        ELSE IF tag = <<"i", "n", "p", "u", "t">>
             THEN IF type = <<"c", "h", "e", "c", "k", "b", "o", "x">> THEN <<"c", "h", "e", "c", "k", "b", "o", "x">>
                  ELSE IF type = <<"r", "a", "d", "i", "o">> THEN <<"r", "a", "d", "i", "o">>
                  ELSE IF type = <<"s", "u", "b", "m", "i", "t">> \/ type = <<"b", "u", "t", "t", "o", "n">> THEN <<"b", "u", "t", "t", "o", "n">>
                  ELSE <<"t", "e", "x", "t", "b", "o", "x">>
        ELSE IF tag = <<"t", "e", "x", "t", "a", "r", "e", "a">> THEN <<"t", "e", "x", "t", "b", "o", "x">>
        ELSE IF tag = <<"s", "e", "l", "e", "c", "t">> THEN <<"c", "o", "m", "b", "o", "b", "o", "x">>
        ELSE null

findLabelText(e) ==
    LET byFor == IF Truthy(IdOf(e)) THEN LabelForText(IdOf(e)) ELSE null
        parentLabel == ClosestLabelText(e)
    IN  IF ~IsHTMLElement(e) THEN null
        ELSE IF Truthy(byFor) THEN byFor
        ELSE IF Truthy(parentLabel) THEN parentLabel
        ELSE null

\* labelledBy.split(/\s+/).map(id => getElementById(id)?.textContent || "")
\*           .join(" ").trim()
LabelledByText(e, labelledBy) ==
    LET ids == SplitWs(labelledBy)
        texts == [i \in DOMAIN ids |-> Or(ElementTextById(e, ids[i]), <<>>)]
    IN  Trim(Join(texts, <<" ">>))

\* getAccessibleName as it would be with the placeholder tried before the
\* label text.
getAccessibleNamePlaceholderFirst(e) ==
    LET ariaLabel == getAttribute(e, "aria-label")
        labelledBy == getAttribute(e, "aria-labelledby")
        text == IF Truthy(labelledBy) THEN LabelledByText(e, labelledBy) ELSE <<>>
        alt == IF IsHTMLImageElement(e) THEN getAttribute(e, "alt") ELSE null
        labelText == findLabelText(e)
        placeholder == getAttribute(e, "placeholder")
        title == getAttribute(e, "title")
        own == Trim(e.textContent)
    IN  IF Truthy(ariaLabel) THEN normalizeWhitespace(ariaLabel)
        ELSE IF Truthy(text) THEN normalizeWhitespace(text)
        ELSE IF Truthy(alt) THEN normalizeWhitespace(alt)
        ELSE IF Truthy(placeholder) THEN normalizeWhitespace(placeholder)
        ELSE IF Truthy(labelText) THEN normalizeWhitespace(labelText)
        ELSE IF Truthy(title) THEN normalizeWhitespace(title)
        ELSE IF Truthy(own) THEN normalizeWhitespace(own)
        ELSE null

getAccessibleName(e) ==
    LET ariaLabel == getAttribute(e, "aria-label")
        labelledBy == getAttribute(e, "aria-labelledby")
        text == IF Truthy(labelledBy) THEN LabelledByText(e, labelledBy) ELSE <<>>
        alt == IF IsHTMLImageElement(e) THEN getAttribute(e, "alt") ELSE null
        labelText == findLabelText(e)
        placeholder == getAttribute(e, "placeholder")
        title == getAttribute(e, "title")
        own == Trim(e.textContent)
    IN  IF Truthy(ariaLabel) THEN normalizeWhitespace(ariaLabel)
        ELSE IF Truthy(text) THEN normalizeWhitespace(text)
        ELSE IF Truthy(alt) THEN normalizeWhitespace(alt)
        ELSE IF Truthy(labelText) THEN normalizeWhitespace(labelText)
        ELSE IF Truthy(placeholder) THEN normalizeWhitespace(placeholder)
        ELSE IF Truthy(title) THEN normalizeWhitespace(title)
        ELSE IF Truthy(own) THEN normalizeWhitespace(own)
        ELSE null

----------------------------------------------------------------------------
(* CSS fallback selector                                                  *)

\* The element followed by its ancestors, each with what a selector segment
\* reads of it.
Chain(e) ==
    << [tagName |-> e.tagName,
        className |-> Or(getAttribute(e, "class"), <<>>),
        svg |-> ~IsHTMLElement(e),
        before |-> e.place.before] >>
    \o [i \in DOMAIN e.place.ancestors |->
          [tagName |-> e.place.ancestors[i].tagName,
           className |-> e.place.ancestors[i].className,
           svg |-> FALSE,
           before |-> e.place.ancestors[i].before]]

\* Element.classList: the class names in order, each once.
RECURSIVE Distinct(_)
Distinct(parts) ==
    IF parts = <<>> THEN <<>>
    ELSE LET front == Distinct(SubSeq(parts, 1, Len(parts) - 1))
             last == parts[Len(parts)]
         IN  IF last \in Range(front) THEN front ELSE Append(front, last)

ClassList(className) == Distinct(NonEmptyOnly(SplitWs(className)))

\* getSiblingIndex of the i-th node of the chain: 0 without a parent element,
\* else the 1-based position among the parent's children of the same tag.
getSiblingIndex(chain, i) ==
    IF i = Len(chain) THEN 0 ELSE chain[i].before + 1

CssDepth == 4

\* The loop body as it would be with the slice(0, 2) forgotten.
CssSegmentAllClasses(chain, i) ==
    LET tag == toLowerCase(chain[i].tagName)
        classes == ClassList(chain[i].className)
        all == [k \in DOMAIN classes |-> cssEscape(classes[k])]
        className == IF chain[i].svg \/ Truthy(chain[i].className)
                     THEN <<".">> \o Join(all, <<".">>)
                     ELSE <<>>
        siblingIndex == getSiblingIndex(chain, i)
        nth == IF siblingIndex > 0
               THEN <<":", "n", "t", "h", "-", "o", "f", "-", "t", "y", "p", "e", "(">> \o NatToString(siblingIndex) \o <<")">>
               ELSE <<>>
    IN  tag \o className \o nth

\* One pass of the loop body: `${tag}${className}${nth}`.  The className of
\* an SVG element is an object, which is truthy whatever the class.
CssSegment(chain, i) ==
    LET tag == toLowerCase(chain[i].tagName)
        classes == ClassList(chain[i].className)
        firstTwo == [k \in 1..Min(Len(classes), 2) |-> cssEscape(classes[k])]
        className == IF chain[i].svg \/ Truthy(chain[i].className)
                     THEN <<".">> \o Join(firstTwo, <<".">>)
                     ELSE <<>>
        siblingIndex == getSiblingIndex(chain, i)
        nth == IF siblingIndex > 0
               THEN <<":", "n", "t", "h", "-", "o", "f", "-", "t", "y", "p", "e", "(">> \o NatToString(siblingIndex) \o <<")">>
               ELSE <<>>
    IN  tag \o className \o nth

\* The loop of buildCssSelector from node i on, depth nodes done: the
\* segments collected, outermost first.
RECURSIVE CssParts(_, _, _)
CssParts(chain, i, depth) ==
    IF i > Len(chain) \/ toLowerCase(chain[i].tagName) = <<"h", "t", "m", "l">> \/ depth >= CssDepth
    THEN <<>>
    ELSE CssParts(chain, i + 1, depth + 1) \o <<CssSegment(chain, i)>>

\* buildCssSelector as it would be with the id shortcut forgotten.
buildCssSelectorNoId(e) ==
    Or(Join(CssParts(Chain(e), 1, 0), <<" ", ">", " ">>), toLowerCase(e.tagName))

buildCssSelector(e) ==
    LET id == IdOf(e)
        parts == CssParts(Chain(e), 1, 0)
    IN  IF Truthy(id) THEN <<"#">> \o cssEscape(id)
        ELSE Or(Join(parts, <<" ", ">", " ">>), toLowerCase(e.tagName))

----------------------------------------------------------------------------
(* Selector candidates                                                    *)

byRole == <<"b", "y", "R", "o", "l", "e">>
byLabel == <<"b", "y", "L", "a", "b", "e", "l">>
byPlaceholder == <<"b", "y", "P", "l", "a", "c", "e", "h", "o", "l", "d", "e", "r">>
byTestId == <<"b", "y", "T", "e", "s", "t", "I", "d">>
byText == <<"b", "y", "T", "e", "x", "t">>
css == <<"c", "s", "s">>

Candidate(kind, selector, reason) ==
    [kind |-> kind, selector |-> selector, reason |-> reason]

RoleCandidates(role, name) ==
    IF Truthy(role) /\ Truthy(name)
    THEN << Candidate(byRole,
                      <<"g", "e", "t", "B", "y", "R", "o", "l", "e", "(", "'">> \o escapeQuotes(role) \o <<"'", ",", " ", "{", " ", "n", "a", "m", "e", ":", " ", "'">>
                          \o escapeQuotes(name) \o <<"'", " ", "}", ")">>,
                      "Accessible role + name") >>
    ELSE IF Truthy(role)
    THEN << Candidate(byRole,
                      <<"g", "e", "t", "B", "y", "R", "o", "l", "e", "(", "'">> \o escapeQuotes(role) \o <<"'", ")">>,
                      "Accessible role") >>
    ELSE <<>>

LabelCandidates(e) ==
    LET labelText == findLabelText(e)
    IN  IF Truthy(labelText)
        THEN << Candidate(byLabel,
                          <<"g", "e", "t", "B", "y", "L", "a", "b", "e", "l", "(", "'">>
                              \o escapeQuotes(normalizeWhitespace(labelText)) \o <<"'", ")">>,
                          "Associated label") >>
        ELSE <<>>

PlaceholderCandidates(e) ==
    LET placeholder == getAttribute(e, "placeholder")
    IN  IF Truthy(placeholder)
        THEN << Candidate(byPlaceholder,
                          <<"g", "e", "t", "B", "y", "P", "l", "a", "c", "e", "h", "o", "l", "d", "e", "r", "(", "'">>
                              \o escapeQuotes(normalizeWhitespace(placeholder)) \o <<"'", ")">>,
                          "Placeholder text") >>
        ELSE <<>>

\* dataset.testid is the data-testid attribute again.
TestIdOf(e) ==
    Or(getAttribute(e, "data-testid"),
       Or(getAttribute(e, "data-test-id"), getAttribute(e, "data-testid")))

TestIdCandidates(e) ==
    LET testId == TestIdOf(e)
    IN  IF Truthy(testId)
        THEN << Candidate(byTestId,
                          <<"g", "e", "t", "B", "y", "T", "e", "s", "t", "I", "d", "(", "'">> \o escapeQuotes(testId) \o <<"'", ")">>,
                          "data-testid") >>
        ELSE <<>>

TextCandidates(e) ==
    LET textContent == normalizeWhitespace(e.textContent)
    IN  IF Truthy(textContent)
        THEN << Candidate(byText,
                          <<"g", "e", "t", "B", "y", "T", "e", "x", "t", "(", "'">> \o escapeQuotes(textContent) \o <<"'", ")">>,
                          "Visible text") >>
        ELSE <<>>

CssCandidates(e) == << Candidate(css, buildCssSelector(e), "CSS fallback") >>

\* buildSelectors as it would be with the css candidate put first.
buildSelectorsCssFirst(e, role, name) ==
    CssCandidates(e) \o RoleCandidates(role, name) \o LabelCandidates(e)
        \o PlaceholderCandidates(e) \o TestIdCandidates(e) \o TextCandidates(e)

\* buildSelectors as it would be with the text candidate pushed before the
\* test id candidate.
buildSelectorsTextBeforeTestId(e, role, name) ==
    RoleCandidates(role, name) \o LabelCandidates(e) \o PlaceholderCandidates(e)
        \o TextCandidates(e) \o TestIdCandidates(e) \o CssCandidates(e)

\* buildSelectors as it would be with the css candidate forgotten.
buildSelectorsWithoutCss(e, role, name) ==
    RoleCandidates(role, name) \o LabelCandidates(e) \o PlaceholderCandidates(e)
        \o TestIdCandidates(e) \o TextCandidates(e)

buildSelectors(e, role, name) ==
    RoleCandidates(role, name) \o LabelCandidates(e) \o PlaceholderCandidates(e)
        \o TestIdCandidates(e) \o TextCandidates(e) \o CssCandidates(e)

----------------------------------------------------------------------------
(* Element key                                                            *)

\* buildElementKey as it would be without the slice.
buildElementKeyUncut(e, role, name, selectors) ==
    LET id == IdOf(e)
        text == Or(name, Or(id, toLowerCase(e.tagName)))
        base == Trim(ReplaceEach(text, "[^a-zA-Z0-9\\s_-]", <<" ">>, 1))
        words == NonEmptyOnly(SplitWs(base))
        rolePrefix == IF Truthy(role) THEN role \o <<"_">> ELSE <<>>
        raw == toLowerCase(rolePrefix \o Join(words, <<"_">>))
        compact == ReplaceRuns(raw, "_", <<"_">>, 1)
        fallback == IF selectors # <<>> THEN selectors[1].kind ELSE <<"e", "l", "e", "m", "e", "n", "t">>
    IN  IF Len(compact) > 0 THEN compact
        ELSE <<"e", "l", "e", "m", "e", "n", "t", "_">> \o fallback

\* buildElementKey as it would be without toLowerCase.
buildElementKeyMixedCase(e, role, name, selectors) ==
    LET id == IdOf(e)
        text == Or(name, Or(id, toLowerCase(e.tagName)))
        base == Trim(ReplaceEach(text, "[^a-zA-Z0-9\\s_-]", <<" ">>, 1))
        words == NonEmptyOnly(SplitWs(base))
        rolePrefix == IF Truthy(role) THEN role \o <<"_">> ELSE <<>>
        raw == rolePrefix \o Join(words, <<"_">>)
        compact == Slice(ReplaceRuns(raw, "_", <<"_">>, 1), KeyLimit)
        fallback == IF selectors # <<>> THEN selectors[1].kind ELSE <<"e", "l", "e", "m", "e", "n", "t">>
    IN  IF Len(compact) > 0 THEN compact
        ELSE <<"e", "l", "e", "m", "e", "n", "t", "_">> \o fallback

\* buildElementKey as it would be with the id tried before the name.
buildElementKeyIdFirst(e, role, name, selectors) ==
    LET id == IdOf(e)
        text == Or(id, Or(name, toLowerCase(e.tagName)))
        base == Trim(ReplaceEach(text, "[^a-zA-Z0-9\\s_-]", <<" ">>, 1))
        words == NonEmptyOnly(SplitWs(base))
        rolePrefix == IF Truthy(role) THEN role \o <<"_">> ELSE <<>>
        raw == toLowerCase(rolePrefix \o Join(words, <<"_">>))
        compact == Slice(ReplaceRuns(raw, "_", <<"_">>, 1), KeyLimit)
        fallback == IF selectors # <<>> THEN selectors[1].kind ELSE <<"e", "l", "e", "m", "e", "n", "t">>
    IN  IF Len(compact) > 0 THEN compact
        ELSE <<"e", "l", "e", "m", "e", "n", "t", "_">> \o fallback

buildElementKey(e, role, name, selectors) ==
    LET id == IdOf(e)
        text == Or(name, Or(id, toLowerCase(e.tagName)))
        base == Trim(ReplaceEach(text, "[^a-zA-Z0-9\\s_-]", <<" ">>, 1))
        words == NonEmptyOnly(SplitWs(base))
        rolePrefix == IF Truthy(role) THEN role \o <<"_">> ELSE <<>>
        raw == toLowerCase(rolePrefix \o Join(words, <<"_">>))
        compact == Slice(ReplaceRuns(raw, "_", <<"_">>, 1), KeyLimit)
        fallback == IF selectors # <<>> THEN selectors[1].kind ELSE <<"e", "l", "e", "m", "e", "n", "t">>
    IN  IF Len(compact) > 0 THEN compact
        ELSE <<"e", "l", "e", "m", "e", "n", "t", "_">> \o fallback

----------------------------------------------------------------------------
(* Warnings                                                               *)

WarnCss == "A) CSS fallback included"
WarnDynamic == "B) Text looks dynamic (numbers or variable tokens)"
WarnDuplicate == "C) Multiple elements share the same text"

\* looksDynamicText as it would be with the #digit pattern forgotten.
looksDynamicTextDigitsOnly(text) ==
    \E i \in 1..(Len(text) - 1) : IsDigit(text[i]) /\ IsDigit(text[i + 1])

\* /\d{2,}/.test(text) || /#\d+/.test(text)
looksDynamicText(text) ==
    \/ \E i \in 1..(Len(text) - 1) : IsDigit(text[i]) /\ IsDigit(text[i + 1])
    \/ \E i \in 1..(Len(text) - 1) : text[i] = "#" /\ IsDigit(text[i + 1])

\* normalizeWhitespace(el.textContent || "") of the other elements of the page.
PageTexts == [i \in DOMAIN Page |-> normalizeWhitespace(Or(Page[i].textContent, <<>>))]

\* The elements `body *` matches whose normalized text is the given text:
\* the other elements of the page, the element itself and its ancestors
\* below the body (an ancestor's text ends with the element's text).
countElementsByText(e, text) ==
    LET up == e.place.ancestors
        inBody == \E i \in DOMAIN up : up[i].tagName = <<"B", "O", "D", "Y">>
        below == {i \in DOMAIN up :
                     \E j \in DOMAIN up : i < j /\ up[j].tagName = <<"B", "O", "D", "Y">>}
    IN  Cardinality({i \in DOMAIN Page : PageTexts[i] = text})
        + (IF inBody /\ normalizeWhitespace(e.textContent) = text THEN 1 ELSE 0)
        + Cardinality({i \in below :
                          normalizeWhitespace(up[i].ownText \o e.textContent) = text})

\* buildWarnings as it would be with one element of that text enough for
\* the third warning.
buildWarningsAnyMatch(selectors, name, e) ==
    LET hasCss == \E i \in DOMAIN selectors : selectors[i].kind = css
        textContent == normalizeWhitespace(e.textContent)
    IN  (IF hasCss THEN <<WarnCss>> ELSE <<>>)
        \o (IF Truthy(name) /\ looksDynamicText(name) THEN <<WarnDynamic>> ELSE <<>>)
        \o (IF Truthy(textContent) /\ countElementsByText(e, textContent) > 0
            THEN <<WarnDuplicate>> ELSE <<>>)

\* buildWarnings as it would be with the first warning pushed last.
buildWarningsCssLast(selectors, name, e) ==
    LET hasCss == \E i \in DOMAIN selectors : selectors[i].kind = css
        textContent == normalizeWhitespace(e.textContent)
    IN  (IF Truthy(name) /\ looksDynamicText(name) THEN <<WarnDynamic>> ELSE <<>>)
        \o (IF Truthy(textContent) /\ countElementsByText(e, textContent) > 1
            THEN <<WarnDuplicate>> ELSE <<>>)
        \o (IF hasCss THEN <<WarnCss>> ELSE <<>>)

buildWarnings(selectors, name, e) ==
    LET hasCss == \E i \in DOMAIN selectors : selectors[i].kind = css
        textContent == normalizeWhitespace(e.textContent)
    IN  (IF hasCss THEN <<WarnCss>> ELSE <<>>)
        \o (IF Truthy(name) /\ looksDynamicText(name) THEN <<WarnDynamic>> ELSE <<>>)
        \o (IF Truthy(textContent) /\ countElementsByText(e, textContent) > 1
            THEN <<WarnDuplicate>> ELSE <<>>)

----------------------------------------------------------------------------
(* The description                                                        *)

SnippetLimit == 200

\* The character U+2026, one character of the string.
Ellipsis == "..."

getOuterHtmlSnippet(e) ==
    LET html == Or(OuterHtml(e), <<>>)
        cleaned == Trim(ReplaceRuns(html, "\\s", <<" ">>, 1))
    IN  IF Len(cleaned) <= SnippetLimit THEN cleaned
        ELSE Slice(cleaned, SnippetLimit) \o <<Ellipsis>>

buildPageKey(url, title) ==
    LET titleKey == normalizeWhitespace(title)
    IN  Or(titleKey, <<"h", "o", "m", "e">>)

\* window.getSelection()?.toString(): the text the user has selected.
getSelectedText ==
    LET text == Or(Trim(window.selection), <<>>)
    IN  IF Len(text) > 0 THEN normalizeWhitespace(text) ELSE null

\* The catch branch of the source is not taken: with the document's URL as
\* base, new URL does not throw for the src values of the model.
getImageName(e) ==
    LET src == SrcOf(e)
        parts == NonEmptyOnly(SplitBy(Pathname(src), "/"))
        file == IF parts = <<>> THEN <<>> ELSE parts[Len(parts)]
    IN  IF ~IsHTMLImageElement(e) THEN null
        ELSE IF ~Truthy(src) THEN null
        ELSE Or(file, <<"i", "m", "a", "g", "e">>)

\* buildCapture as it would be if it kept the candidates of the description
\* built before.
buildCaptureCarrying(e) ==
    LET url == window.href
        title == Or(window.title, <<>>)
        role == getRole(e)
        name == getAccessibleName(e)
        selectors == kept.capture.selectors \o buildSelectors(e, role, name)
    IN  [url |-> url,
         title |-> title,
         pageKey |-> buildPageKey(url, title),
         selectedText |-> getSelectedText,
         imageName |-> getImageName(e),
         role |-> role,
         name |-> name,
         outerHTML |-> getOuterHtmlSnippet(e),
         elementKey |-> buildElementKey(e, role, name, selectors),
         selectors |-> selectors,
         warnings |-> buildWarnings(selectors, name, e)]

buildCapture(e) ==
    LET url == window.href
        title == Or(window.title, <<>>)
        role == getRole(e)
        name == getAccessibleName(e)
        selectors == buildSelectors(e, role, name)
    IN  [url |-> url,
         title |-> title,
         pageKey |-> buildPageKey(url, title),
         selectedText |-> getSelectedText,
         imageName |-> getImageName(e),
         role |-> role,
         name |-> name,
         outerHTML |-> getOuterHtmlSnippet(e),
         elementKey |-> buildElementKey(e, role, name, selectors),
         selectors |-> selectors,
         warnings |-> buildWarnings(selectors, name, e)]

NoCapture ==
    [url |-> <<>>, title |-> <<>>, pageKey |-> <<>>, selectedText |-> null,
     imageName |-> null, role |-> null, name |-> null, outerHTML |-> <<>>,
     elementKey |-> <<>>, selectors |-> <<>>, warnings |-> <<>>]

----------------------------------------------------------------------------
(* The state machine: the page edits the element, the user captures it    *)

Bare(tag) ==
    [tagName |-> tag, attrs |-> <<>>, textContent |-> <<>>, place |-> InBody]

\* The number of page edits the element carries.
Edits(e) ==
    Cardinality(DOMAIN e.attrs)
    + (IF e.textContent # <<>> THEN 1 ELSE 0)
    + (IF e.place # InBody THEN 1 ELSE 0)

\* The window of a page without title and selection.
PlainWindow == [href |-> DocumentUrl, title |-> <<>>, selection |-> <<>>]

\* No description handed over yet.
NothingKept == [element |-> Bare(<<>>), window |-> PlainWindow, capture |-> NoCapture]

\* No overlay in the document.
NoOverlay ==
    [shown |-> FALSE, originalText |-> <<>>, value |-> <<>>,
     selectionStart |-> 0, selectionEnd |-> 0, disabled |-> TRUE,
     generating |-> FALSE, writing |-> <<>>, clipboard |-> <<>>, inputs |-> 0]

\* The options page not opened.
NoOptions == [open |-> FALSE, mappingEl |-> <<>>, saved |-> FALSE, mapping |-> <<>>]

\* The content script loaded into a page whose document holds the elements
\* html, body and, in the body, a and b: nothing right-clicked, nothing
\* focused, no capture-and-copy message received.
IdleContent ==
    [attached |-> {"html", "body", "a", "b"}, focused |-> "null",
     lastRightClickedElement |-> "null", menus |-> <<>>,
     request |-> "idle", target |-> "null",
     clipboard |-> "empty", overlay |-> FALSE, snapshotUrl |-> "null",
     responses |-> <<>>]

\* The service worker with no jira:create-issue message received: no
\* request sent to Jira, nothing answered.
IdleWorker ==
    [step |-> "idle", todo |-> <<>>, issueType |-> "null",
     requests |-> <<>>, responses |-> <<>>,
     config |-> [baseUrl |-> null, email |-> null, token |-> null],
     message |-> [projectKey |-> null, summary |-> null, issueType |-> null,
                  snapshot |-> "none", recording |-> "none", comments |-> 0]]

\* What a handler of the offscreen document answers to a message.
Answer(type, ok, error) ==
    [type |-> type, ok |-> ok, error |-> error, recorder |-> 0,
     recordingId |-> 0]

\* The offscreen document as loaded: no recorder, no chunks, no recordings.
\* Recorders are numbered from 1 in the order they are constructed, and a
\* chunk is named by the recorder that produced it.
IdleOffscreen ==
    [recorder |-> 0, chunks |-> <<>>, recordings |-> <<>>,
     acquiring |-> 0, created |-> 0, recording |-> {}, stopping |-> {},
     now |-> 1, uploading |-> {}, last |-> Answer("none", FALSE, "null")]

Init ==
    /\ element \in {Bare(tag) : tag \in TagNames}
    /\ pc = "idle"
    /\ capture = NoCapture
    /\ window = PlainWindow
    /\ kept = NothingKept
    /\ editor = NoOverlay
    /\ options = NoOptions
    /\ content = IdleContent
    /\ worker = IdleWorker
    /\ offscreen = IdleOffscreen

\* The page gives the element an attribute it does not carry yet.
SetAttribute(n, v) ==
    /\ pc = "idle"
    /\ AttrApplies(n, element.tagName)
    /\ n \notin DOMAIN element.attrs
    /\ Edits(element) < MaxEdits
    /\ element' = [element EXCEPT !.attrs = (n :> v) @@ @]
    /\ UNCHANGED <<pc, capture, window, kept, overlayVars, optionsVars, messageVars>>

RemoveAttribute(n) ==
    /\ pc = "idle"
    /\ n \in DOMAIN element.attrs
    /\ element' = [element EXCEPT
                     !.attrs = [m \in (DOMAIN @) \ {n} |-> @[m]]]
    /\ UNCHANGED <<pc, capture, window, kept, overlayVars, optionsVars, messageVars>>

\* The page fills the empty element with text, or empties it.
SetText(t) ==
    /\ pc = "idle"
    /\ IF t = <<>> THEN element.textContent # <<>>
       ELSE element.textContent = <<>> /\ Edits(element) < MaxEdits
    /\ element' = [element EXCEPT !.textContent = t]
    /\ UNCHANGED <<pc, capture, window, kept, overlayVars, optionsVars, messageVars>>

\* The page moves the element out of the body, or back into it.
Move(p) ==
    /\ pc = "idle"
    /\ IF p = InBody THEN element.place # InBody
       ELSE element.place = InBody /\ Edits(element) < MaxEdits
    /\ element' = [element EXCEPT !.place = p]
    /\ UNCHANGED <<pc, capture, window, kept, overlayVars, optionsVars, messageVars>>

\* handleCaptureAndCopy up to the description: buildCapture runs to its end
\* in one task, so the page cannot change under it.
Capture ==
    /\ pc = "idle"
    /\ pc' = "built"
    /\ capture' = buildCapture(element)
    /\ UNCHANGED <<element, window, kept, overlayVars, optionsVars, messageVars>>

\* The description is handed to the caller and dropped.
Release ==
    /\ pc = "built"
    /\ pc' = "idle"
    /\ capture' = NoCapture
    /\ UNCHANGED <<element, window, kept, overlayVars, optionsVars, messageVars>>

Next ==
    \/ \E n \in AttrNames : \E v \in AttrValues(n) : SetAttribute(n, v)
    \/ \E n \in AttrNames : RemoveAttribute(n)
    \/ \E t \in TextValues \cup {<<>>} : SetText(t)
    \/ \E p \in Places : Move(p)
    \/ Capture
    \/ Release

Spec == Init /\ [][Next]_vars

----------------------------------------------------------------------------
(* Properties of the description                                          *)

Built == pc = "built"

KindsOf(selectors) == [i \in DOMAIN selectors |-> selectors[i].kind]

HasKind(selectors, kind) == \E i \in DOMAIN selectors : selectors[i].kind = kind

\* C1: whatever element is described, the selectors list is not empty, holds
\* a css candidate, and a css candidate stands nowhere but at its end.
C1_SelectorsEndWithCss ==
    Built =>
        /\ capture.selectors # <<>>
        /\ HasKind(capture.selectors, css)
        /\ \A i \in DOMAIN capture.selectors :
              capture.selectors[i].kind = css => i = Len(capture.selectors)

\* A description whose css candidate follows three others.
C1_Witness ==
    /\ Built
    /\ Len(capture.selectors) = 4
    /\ capture.selectors[4].kind = css

\* C2: the element key is never empty and never longer than 40 characters.
C2_KeyLengthBounded ==
    Built => Len(capture.elementKey) \in 1..KeyLimit

\* A name longer than the limit, whose key was cut to exactly the limit.
C2_Witness ==
    /\ Built
    /\ Truthy(capture.name)
    /\ Len(capture.name) > KeyLimit
    /\ Len(capture.elementKey) = KeyLimit

KeyLetters == LowerSet \cup DigitSet \cup {"_"}

\* C3 as stated: every character of the element key is a lowercase letter, a
\* digit or an underscore.
C3_KeyLowerDigitUnderscoreOnly ==
    Built => \A i \in DOMAIN capture.elementKey : capture.elementKey[i] \in KeyLetters

\* C3 as amended: the characters of the element key are lowercase letters,
\* digits, underscores and hyphens, but for two cases: a key that starts with
\* an explicit role attribute also holds that attribute's characters in lower
\* case, and the fallback key is element_ followed by the first candidate's
\* kind as it is spelt (byLabel, byPlaceholder, byTestId, byText, css).
C3_KeyCharacters ==
    Built =>
        LET explicit == getAttribute(element, "role")
            ofRole == IF Truthy(explicit) THEN Range(toLowerCase(explicit)) ELSE {}
        IN  \/ \A i \in DOMAIN capture.elementKey :
                  capture.elementKey[i] \in KeyLetters \cup {"-"} \cup ofRole
            \/ /\ ~Truthy(capture.role)
               /\ capture.elementKey = <<"e", "l", "e", "m", "e", "n", "t", "_">> \o capture.selectors[1].kind

\* A key that keeps the hyphen of the name it was built from.
C3_Witness ==
    /\ Built
    /\ Truthy(capture.name)
    /\ "-" \in Range(capture.name)
    /\ "-" \in Range(capture.elementKey)

\* The seven name signals in priority order, each "" when it is absent: the
\* aria-label, the text aria-labelledby refers to, the alt of an image, the
\* label text, the placeholder, the title, the element's own trimmed text.
NameSignals(e) ==
    << Or(getAttribute(e, "aria-label"), <<>>),
       IF Truthy(getAttribute(e, "aria-labelledby"))
       THEN LabelledByText(e, getAttribute(e, "aria-labelledby")) ELSE <<>>,
       IF e.tagName = <<"I", "M", "G">> THEN Or(getAttribute(e, "alt"), <<>>) ELSE <<>>,
       Or(findLabelText(e), <<>>),
       Or(getAttribute(e, "placeholder"), <<>>),
       Or(getAttribute(e, "title"), <<>>),
       Trim(e.textContent) >>

\* The first of the signals whose index is in present, normalized; null if
\* there is none.
FirstSignal(signals, present) ==
    IF present = {} THEN null
    ELSE normalizeWhitespace(
             signals[CHOOSE i \in present : \A j \in present : i <= j])

\* The signals that are not "", and those with more than whitespace in them.
NonEmptySignals(signals) == {i \in DOMAIN signals : signals[i] # <<>>}

NonBlankSignals(signals) ==
    {i \in DOMAIN signals : normalizeWhitespace(signals[i]) # <<>>}

\* C4: the name is the normalized value of the first signal, in priority
\* order, that is not empty, and null when all are absent or empty; with
\* aria-label "A" and placeholder "B" it is "A".
C4_NamePriority ==
    Built =>
        /\ capture.name = FirstSignal(NameSignals(element), NonEmptySignals(NameSignals(element)))
        /\ ( /\ getAttribute(element, "aria-label") = <<"A">>
             /\ getAttribute(element, "placeholder") = <<"B">> )
           => capture.name = <<"A">>

\* The scenario's element: aria-label "A" and placeholder "B".
C4_Witness ==
    /\ Built
    /\ getAttribute(element, "aria-label") = <<"A">>
    /\ getAttribute(element, "placeholder") = <<"B">>
    /\ capture.name = <<"A">>

\* No whitespace at either end and no two whitespace characters in a row.
IsNormalized(s) ==
    /\ s # <<>> => ~IsSpace(s[1]) /\ ~IsSpace(s[Len(s)])
    /\ \A i \in 1..(Len(s) - 1) : ~(IsSpace(s[i]) /\ IsSpace(s[i + 1]))

\* C5: the name is null or a non-empty normalized string, and a signal that
\* is empty once normalized does not win: the name is that of the first
\* signal with something besides whitespace in it.
C5_NameNullOrNormalized ==
    Built =>
        /\ capture.name = null \/ (capture.name # <<>> /\ IsNormalized(capture.name))
        /\ capture.name = FirstSignal(NameSignals(element), NonBlankSignals(NameSignals(element)))

\* C6 as stated: an element that carries a role attribute, whatever its
\* value, has that value as its role.
C6_RoleAttributeVerbatim ==
    (Built /\ "role" \in DOMAIN element.attrs)
        => capture.role = element.attrs["role"]

\* C6 as amended: an element that carries a role attribute with a value
\* other than "" has that value, unchanged, as its role, whatever its tag and
\* type.
C6_NonEmptyRoleAttributeVerbatim ==
    (Built /\ "role" \in DOMAIN element.attrs /\ element.attrs["role"] # <<>>)
        => capture.role = element.attrs["role"]

\* A button whose role attribute, with capitals, a space and a quote, wins
\* over the tag's own role.
C6_Witness ==
    /\ Built
    /\ element.tagName = <<"B", "U", "T", "T", "O", "N">>
    /\ getAttribute(element, "role") = <<"T", "a", " ", "b", "'", "s">>
    /\ capture.role = <<"T", "a", " ", "b", "'", "s">>

\* The role the tag and type table gives an element.
TableRole(e) ==
    LET tag == e.tagName
        type == IF "type" \in DOMAIN e.attrs THEN toLowerCase(e.attrs["type"]) ELSE <<>>
    IN  CASE tag = <<"B", "U", "T", "T", "O", "N">> -> <<"b", "u", "t", "t", "o", "n">>
          [] tag = <<"A">> /\ "href" \in DOMAIN e.attrs -> <<"l", "i", "n", "k">>
          [] tag = <<"I", "M", "G">> -> <<"i", "m", "g">>
          [] tag = <<"I", "N", "P", "U", "T">> /\ type = <<"c", "h", "e", "c", "k", "b", "o", "x">> -> <<"c", "h", "e", "c", "k", "b", "o", "x">>
          [] tag = <<"I", "N", "P", "U", "T">> /\ type = <<"r", "a", "d", "i", "o">> -> <<"r", "a", "d", "i", "o">>
          [] tag = <<"I", "N", "P", "U", "T">> /\ type \in {<<"s", "u", "b", "m", "i", "t">>, <<"b", "u", "t", "t", "o", "n">>} -> <<"b", "u", "t", "t", "o", "n">>
          [] tag = <<"I", "N", "P", "U", "T">> /\ type \notin {<<"c", "h", "e", "c", "k", "b", "o", "x">>, <<"r", "a", "d", "i", "o">>, <<"s", "u", "b", "m", "i", "t">>, <<"b", "u", "t", "t", "o", "n">>}
                -> <<"t", "e", "x", "t", "b", "o", "x">>
          [] tag = <<"T", "E", "X", "T", "A", "R", "E", "A">> -> <<"t", "e", "x", "t", "b", "o", "x">>
          [] tag = <<"S", "E", "L", "E", "C", "T">> -> <<"c", "o", "m", "b", "o", "b", "o", "x">>
          [] OTHER -> null

\* C7: an element without a role attribute has exactly the role of the table,
\* and none (null) when the table has no entry for it.
C7_TableRole ==
    (Built /\ "role" \notin DOMAIN element.attrs)
        => capture.role = TableRole(element)

\* An anchor with an href, resolved to link.
C7_Witness ==
    /\ Built
    /\ "role" \notin DOMAIN element.attrs
    /\ element.tagName = <<"A">>
    /\ "href" \in DOMAIN element.attrs
    /\ capture.role = <<"l", "i", "n", "k">>

KindOrder == << byRole, byLabel, byPlaceholder, byTestId, byText, css >>

Rank(kind) == CHOOSE r \in DOMAIN KindOrder : KindOrder[r] = kind

\* The kinds are kinds of the fixed order and stand in that order, none twice.
InKindOrder(selectors) ==
    /\ \A i \in DOMAIN selectors : selectors[i].kind \in Range(KindOrder)
    /\ \A i, j \in DOMAIN selectors :
          i < j => Rank(selectors[i].kind) < Rank(selectors[j].kind)

\* C8 as stated: the kinds stand in the fixed order, each at most once, and
\* byLabel is there exactly when a label text is found, byPlaceholder exactly
\* when the placeholder attribute is present, byTestId exactly when
\* data-testid or data-test-id is present, byText exactly when the normalized
\* text is not empty.
C8_KindsWhenAttributePresent ==
    Built =>
        /\ InKindOrder(capture.selectors)
        /\ HasKind(capture.selectors, byLabel) <=> findLabelText(element) # null
        /\ HasKind(capture.selectors, byPlaceholder)
              <=> "placeholder" \in DOMAIN element.attrs
        /\ HasKind(capture.selectors, byTestId)
              <=> ( \/ "data-testid" \in DOMAIN element.attrs
                    \/ "data-test-id" \in DOMAIN element.attrs )
        /\ HasKind(capture.selectors, byText)
              <=> normalizeWhitespace(element.textContent) # <<>>

\* C8 as amended: as stated, but byPlaceholder is there exactly when the
\* placeholder attribute is present with a value other than "", and byTestId
\* exactly when data-testid or data-test-id is present with a value other
\* than "".
C8_KindsWhenSignalNonEmpty ==
    Built =>
        /\ InKindOrder(capture.selectors)
        /\ HasKind(capture.selectors, byLabel) <=> findLabelText(element) # null
        /\ HasKind(capture.selectors, byPlaceholder)
              <=> ( /\ "placeholder" \in DOMAIN element.attrs
                    /\ element.attrs["placeholder"] # <<>> )
        /\ HasKind(capture.selectors, byTestId)
              <=> \E n \in {"data-testid", "data-test-id"} :
                     n \in DOMAIN element.attrs /\ element.attrs[n] # <<>>
        /\ HasKind(capture.selectors, byText)
              <=> normalizeWhitespace(element.textContent) # <<>>

\* A description with a test id candidate followed by a text candidate.
C8_Witness ==
    /\ Built
    /\ HasKind(capture.selectors, byTestId)
    /\ HasKind(capture.selectors, byText)
    /\ Len(capture.selectors) >= 3

\* Every quote of s has a backslash right before it.
QuotesEscaped(s) ==
    \A i \in DOMAIN s : s[i] = "'" => (i > 1 /\ s[i - 1] = "\\")

\* s without the backslashes that stand right before a quote.
RECURSIVE Unescaped(_, _)
Unescaped(s, i) ==
    IF i > Len(s) THEN <<>>
    ELSE IF s[i] = "\\" /\ i < Len(s) /\ s[i + 1] = "'"
         THEN Unescaped(s, i + 1)
         ELSE <<s[i]>> \o Unescaped(s, i + 1)

\* e is v with every quote escaped.
IsEscapeOf(e, v) == QuotesEscaped(e) /\ Unescaped(e, 1) = v

\* C9: there is no byRole candidate exactly when no role is resolved; with a
\* role and a name the candidate is getByRole('<role>', { name: '<name>' })
\* with reason "Accessible role + name", with a role and no name it is
\* getByRole('<role>'); the values stand in it with every quote escaped.
C9_ByRoleCandidate ==
    Built =>
        LET role == capture.role
            name == capture.name
            first == capture.selectors[1]
            r == escapeQuotes(role)
            n == escapeQuotes(name)
        IN  /\ HasKind(capture.selectors, byRole) <=> role # null
            /\ role # null =>
                  /\ first.kind = byRole
                  /\ IsEscapeOf(r, role)
                  /\ IF name # null /\ name # <<>>
                     THEN /\ IsEscapeOf(n, name)
                          /\ first.selector =
                                <<"g", "e", "t", "B", "y", "R", "o", "l", "e", "(", "'">> \o r \o <<"'", ",", " ", "{", " ", "n", "a", "m", "e", ":", " ", "'">> \o n \o <<"'", " ", "}", ")">>
                          /\ first.reason = "Accessible role + name"
                     ELSE first.selector = <<"g", "e", "t", "B", "y", "R", "o", "l", "e", "(", "'">> \o r \o <<"'", ")">>

\* A role and a name that both hold a quote.
C9_Witness ==
    /\ Built
    /\ capture.role # null /\ "'" \in Range(capture.role)
    /\ capture.name # null /\ "'" \in Range(capture.name)
    /\ capture.selectors[1].kind = byRole

\* C10: the dynamic-text warning is there exactly when the name holds two
\* digits in a row or a # right before a digit; an element with the text
\* "Item #4821" and no other name signal has the warning.
C10_DynamicWarning ==
    Built =>
        LET name == IF capture.name = null THEN <<>> ELSE capture.name
            twoDigits == \E i \in DOMAIN name :
                            i < Len(name) /\ IsDigit(name[i]) /\ IsDigit(name[i + 1])
            hashDigit == \E i \in DOMAIN name :
                            i < Len(name) /\ name[i] = "#" /\ IsDigit(name[i + 1])
            signals == NameSignals(element)
        IN  /\ (WarnDynamic \in Range(capture.warnings)) <=> (twoDigits \/ hashDigit)
            /\ ( /\ element.textContent = <<"I", "t", "e", "m", " ", "#", "4", "8", "2", "1">>
                 /\ \A i \in 1..6 : signals[i] = <<>> )
               => WarnDynamic \in Range(capture.warnings)

\* The element whose text, and so whose name, is "Item #4821".
C10_Witness ==
    /\ Built
    /\ element.textContent = <<"I", "t", "e", "m", " ", "#", "4", "8", "2", "1">>
    /\ capture.name = <<"I", "t", "e", "m", " ", "#", "4", "8", "2", "1">>
    /\ WarnDynamic \in Range(capture.warnings)

----------------------------------------------------------------------------
(* Properties of the warnings and of the scenario of the specification    *)

\* Whether the element sits below the body of the document.
InBodySubtree(e) ==
    \E i \in DOMAIN e.place.ancestors : e.place.ancestors[i].tagName = <<"B", "O", "D", "Y">>

\* The text contents of the elements of the body subtree other than the
\* element itself: the elements of the page and the element's ancestors
\* below the body.
OtherTexts(e) ==
    LET up == e.place.ancestors
        body == IF InBodySubtree(e)
                THEN CHOOSE i \in DOMAIN up : up[i].tagName = <<"B", "O", "D", "Y">>
                ELSE 1
    IN  [i \in DOMAIN Page |-> Page[i].textContent]
        \o [i \in 1..(body - 1) |-> up[i].ownText \o e.textContent]

\* How many elements of the body subtree have the element's normalized text.
SharedCount(e) ==
    LET text == normalizeWhitespace(e.textContent)
        others == OtherTexts(e)
    IN  (IF InBodySubtree(e) THEN 1 ELSE 0)
        + Cardinality({i \in DOMAIN others : normalizeWhitespace(others[i]) = text})

\* C11: the duplicate-text warning is there exactly when the element's
\* normalized text is not empty and more than one element of the body subtree
\* has exactly that normalized text; a span with the text "Delete" next to
\* another such span has it, and an element whose text no other element has
\* does not.
C11_DuplicateWarning ==
    Built =>
        LET text == normalizeWhitespace(element.textContent)
            others == OtherTexts(element)
            warned == WarnDuplicate \in Range(capture.warnings)
        IN  /\ warned <=> (text # <<>> /\ SharedCount(element) > 1)
            /\ ( /\ element.tagName = <<"S", "P", "A", "N">>
                 /\ element.textContent = <<"D", "e", "l", "e", "t", "e">>
                 /\ element.place = InBody )
               => warned
            /\ (\A i \in DOMAIN others : normalizeWhitespace(others[i]) # text)
               => ~warned

\* The span with the text "Delete", a sibling of the page's span with that
\* text, described with the warning.
C11_Witness ==
    /\ Built
    /\ element.tagName = <<"S", "P", "A", "N">>
    /\ element.textContent = <<"D", "e", "l", "e", "t", "e">>
    /\ element.place = InBody
    /\ WarnDuplicate \in Range(capture.warnings)

\* C12: the selectors list holds the css candidate and the warnings list
\* starts with the CSS-fallback warning, followed by the dynamic-text warning
\* if it is emitted and then by the duplicate-text warning if it is emitted.
C12_CssWarningFirst ==
    Built =>
        /\ HasKind(capture.selectors, css)
        /\ capture.warnings \in
              { <<WarnCss>>,
                <<WarnCss, WarnDynamic>>,
                <<WarnCss, WarnDuplicate>>,
                <<WarnCss, WarnDynamic, WarnDuplicate>> }

\* A description with all three warnings.
C12_Witness ==
    /\ Built
    /\ capture.warnings = <<WarnCss, WarnDynamic, WarnDuplicate>>

\* Whether the element is <button id="submit-btn" aria-label="Submit Order">.
IsSubmitButton(e) ==
    /\ e.tagName = <<"B", "U", "T", "T", "O", "N">>
    /\ DOMAIN e.attrs = {"id", "aria-label"}
    /\ e.attrs["id"] = <<"s", "u", "b", "m", "i", "t", "-", "b", "t", "n">>
    /\ e.attrs["aria-label"] = <<"S", "u", "b", "m", "i", "t", " ", "O", "r", "d", "e", "r">>

\* C13: the button with id "submit-btn", aria-label "Submit Order" and no
\* other attribute is described with role "button", name "Submit Order",
\* elementKey "button_submit_order", the byRole candidate
\* getByRole('button', { name: 'Submit Order' }) and the css candidate
\* "#submit-btn".
C13_SubmitButtonScenario ==
    (Built /\ IsSubmitButton(element)) =>
        /\ capture.role = <<"b", "u", "t", "t", "o", "n">>
        /\ capture.name = <<"S", "u", "b", "m", "i", "t", " ", "O", "r", "d", "e", "r">>
        /\ capture.elementKey = <<"b", "u", "t", "t", "o", "n", "_", "s", "u", "b", "m", "i", "t", "_", "o", "r", "d", "e", "r">>
        /\ \E i \in DOMAIN capture.selectors :
              /\ capture.selectors[i].kind = byRole
              /\ capture.selectors[i].selector =
                    <<"g", "e", "t", "B", "y", "R", "o", "l", "e", "(", "'", "b", "u", "t", "t", "o", "n", "'", ",", " ", "{", " ", "n", "a", "m", "e", ":", " ", "'", "S", "u", "b", "m", "i", "t", " ", "O", "r", "d", "e", "r", "'", " ", "}", ")">>
        /\ \E i \in DOMAIN capture.selectors :
              /\ capture.selectors[i].kind = css
              /\ capture.selectors[i].selector = <<"#", "s", "u", "b", "m", "i", "t", "-", "b", "t", "n">>

\* The button of the scenario, described.
C13_Witness ==
    /\ Built
    /\ IsSubmitButton(element)
    /\ capture.elementKey = <<"b", "u", "t", "t", "o", "n", "_", "s", "u", "b", "m", "i", "t", "_", "o", "r", "d", "e", "r">>


----------------------------------------------------------------------------
(* Properties of the CSS fallback                                          *)

\* The selector of the css candidate of the description.
CssSelectorOf(c) == c.selectors[Len(c.selectors)].selector

\* The segments of a selector: what stands between its " > ".
SegmentsOf(s) ==
    LET seps == SelectSeq(Indices(s),
                          LAMBDA k : k + 2 <= Len(s) /\ SubSeq(s, k, k + 2) = <<" ", ">", " ">>)
    IN  [j \in 1..(Len(seps) + 1) |->
            SubSeq(s,
                   IF j = 1 THEN 1 ELSE seps[j - 1] + 3,
                   IF j = Len(seps) + 1 THEN Len(s) ELSE seps[j] - 1)]

\* The element and its ancestors below the html root, the element first.
BelowRoot(e) ==
    SelectSeq(Chain(e), LAMBDA node : toLowerCase(node.tagName) # <<"h", "t", "m", "l">>)

\* The node the i-th segment of a selector of n segments stands for: the
\* first segment for the outermost node.
NodeOf(e, n, i) == BelowRoot(e)[n - i + 1]

NthOfType(k) == <<":", "n", "t", "h", "-", "o", "f", "-", "t", "y", "p", "e", "(">> \o NatToString(k) \o <<")">>

EndsWith(s, suffix) ==
    Len(suffix) <= Len(s) /\ SubSeq(s, Len(s) - Len(suffix) + 1, Len(s)) = suffix

\* The text ends with a suffix :nth-of-type(k).
HasNthOfType(s) == \E k \in 1..Len(s) : EndsWith(s, NthOfType(k))

\* The description is built of an element without an id that has a parent
\* element, so that the CSS fallback is made of segments.
BuiltBySegments ==
    Built /\ ~Truthy(IdOf(element)) /\ element.place.ancestors # <<>>

\* C19: in every segment of the CSS fallback the :nth-of-type(n) suffix
\* carries the node's 1-based position among the children of its parent
\* that have its tag, and a node that is the only child of its tag within
\* its parent has no suffix.
C19_NthOfTypeSuffix ==
    BuiltBySegments =>
        LET segments == SegmentsOf(CssSelectorOf(capture))
            n == Len(segments)
        IN  \A i \in 1..n :
                LET node == NodeOf(element, n, i)
                IN  IF node.before = 0
                    THEN ~HasNthOfType(segments[i])
                    ELSE EndsWith(segments[i], NthOfType(node.before + 1))

\* The texts a segment may add to the tag for the classes: nothing, or a
\* dot and at most the first two class names, escaped, with dots between.
ClassParts(node) ==
    LET classes == ClassList(node.className)
    IN  {<<>>} \cup
        { <<".">> \o Join([k \in 1..m |-> cssEscape(classes[k])], <<".">>) :
            m \in 0..Min(Len(classes), 2) }

\* The text is a suffix :nth-of-type(k).
IsNthOfType(s) ==
    LET open == <<":", "n", "t", "h", "-", "o", "f", "-", "t", "y", "p", "e", "(">>
    IN  /\ Len(s) > Len(open) + 1
        /\ SubSeq(s, 1, Len(open)) = open
        /\ s[Len(s)] = ")"
        /\ \A j \in (Len(open) + 1)..(Len(s) - 1) : IsDigit(s[j])

\* The segment is the node's tag in lower case, then the classes, then a
\* suffix :nth-of-type(k) or none.
IsSegmentFor(segment, node) ==
    \E classPart \in ClassParts(node) :
        LET head == toLowerCase(node.tagName) \o classPart
            rest == SubSeq(segment, Len(head) + 1, Len(segment))
        IN  /\ Len(head) <= Len(segment)
            /\ SubSeq(segment, 1, Len(head)) = head
            /\ rest = <<>> \/ IsNthOfType(rest)

\* C20: the CSS fallback of an element without an id has one segment for
\* the element and one for each of its nearest ancestors below the html
\* root, four at most, the outermost first and the element last, with " > "
\* between; a segment is the node's tag with at most its first two class
\* names, also for an ancestor that has an id.
C20_CssFallbackSegments ==
    BuiltBySegments =>
        LET segments == SegmentsOf(CssSelectorOf(capture))
            n == Len(segments)
        IN  /\ n = Min(4, Len(BelowRoot(element)))
            /\ \A i \in 1..n : IsSegmentFor(segments[i], NodeOf(element, n, i))
            /\ CssSelectorOf(capture) = Join(segments, <<" ", ">", " ">>)

\* An element with three class names, four levels below an ancestor with
\* an id and five below the body: the body gets no segment, the ancestor
\* is named by its tag, and the third class name is left out.
C20_Witness ==
    /\ BuiltBySegments
    /\ Len(BelowRoot(element)) > 4
    /\ Len(ClassList(Or(getAttribute(element, "class"), <<>>))) > 2
    /\ \E i \in 2..4 : Truthy(element.place.ancestors[i - 1].id)
    /\ Len(SegmentsOf(CssSelectorOf(capture))) = 4

\* A character an escaped identifier holds as it is.
IsPlain(c) == IsLower(c) \/ IsUpper(c) \/ IsDigit(c) \/ c \in {"_", "-"}

\* The characters among the first i of a text that get a backslash.
Escapes(s, i) == Cardinality({j \in 1..i : ~IsPlain(s[j])})

\* C21: the CSS fallback of an element with a non-empty id is '#' and then
\* the characters of the id in order, each character outside [A-Za-z0-9_-]
\* with one backslash before it, and nothing else: no segment of an
\* ancestor, no class, no suffix.
C21_IdSelector ==
    (Built /\ Truthy(IdOf(element))) =>
        LET id == IdOf(element)
            s == CssSelectorOf(capture)
        IN  /\ Len(s) = 1 + Len(id) + Escapes(id, Len(id))
            /\ s[1] = "#"
            /\ \A i \in DOMAIN id :
                  /\ s[1 + i + Escapes(id, i)] = id[i]
                  /\ ~IsPlain(id[i]) => s[i + Escapes(id, i)] = "\\"

\* An element with a dot in its id, with siblings of its tag before it and
\* ancestors that have classes.
C21_Witness ==
    /\ Built
    /\ \E i \in DOMAIN IdOf(element) : ~IsPlain(IdOf(element)[i])
    /\ element.place.before > 0
    /\ \E i \in DOMAIN element.place.ancestors :
          element.place.ancestors[i].className # <<>>

----------------------------------------------------------------------------
(* Repeated captures: the description of one capture is kept by the       *)
(* caller while the page changes and the user captures again             *)

\* A text whose outerHTML has to be cut: longer than the snippet limit.
HugeText == [i \in 1..(SnippetLimit + LongExtra) |-> IF i % 5 = 0 THEN " " ELSE "b"]

RepeatAttrNames == { "role", "aria-label", "data-testid" }

RepeatAttrValues(n) ==
    CASE n = "role"        -> { <<"t", "a", "b">> }
      [] n = "aria-label"  -> { <<"S", "a", "v", "e", " ", "n", "o", "w">> }
      [] n = "data-testid" -> { <<"s", "a", "v", "e">> }

RepeatTexts ==
    { <<"S", "a", "v", "e", " ", "n", "o", "w">>, <<" ", "S", "a", "v", "e", "\n", "\t", " ", "n", "o", "w", " ">>, <<"!", "'">>, <<" ", "!", "'", " ", " ">>, HugeText }

\* In the body, in a label that holds nothing else, in the second item of a
\* list.
RepeatPlaces ==
    { InBody,
      [before |-> 0, ancestors |-> << Ancestor(<<"L", "A", "B", "E", "L">>, <<>>, 0, <<>>) >> \o BodyAndRoot],
      [before |-> 0,
       ancestors |-> << Ancestor(<<"L", "I">>, <<>>, 1, <<>>),
                        Ancestor(<<"U", "L">>, <<>>, 0, <<>>) >> \o BodyAndRoot] }

\* The page edits in all: those of the element, a title, a selection.
WithinEdits ==
    Edits(element) + (IF window.title # <<>> THEN 1 ELSE 0)
        + (IF window.selection # <<>> THEN 1 ELSE 0) <= MaxEdits

InitRepeat ==
    /\ element = Bare(<<"D", "I", "V">>)
    /\ pc = "idle"
    /\ capture = NoCapture
    /\ window = PlainWindow
    /\ kept = NothingKept
    /\ editor = NoOverlay
    /\ options = NoOptions
    /\ content = IdleContent
    /\ worker = IdleWorker
    /\ offscreen = IdleOffscreen

\* The page sets document.title, or clears it.
SetTitle(t) ==
    /\ pc = "idle"
    /\ window.title # t
    /\ window' = [window EXCEPT !.title = t]
    /\ UNCHANGED <<element, pc, capture, kept, overlayVars, optionsVars, messageVars>>

\* The user selects text of the page, or drops the selection.
Select(t) ==
    /\ pc = "idle"
    /\ window.selection # t
    /\ window' = [window EXCEPT !.selection = t]
    /\ UNCHANGED <<element, pc, capture, kept, overlayVars, optionsVars, messageVars>>

\* handleCaptureAndCopy from the description on: its fields go into the
\* overlay's meta and the description is the response's data, so the caller
\* has it when the next capture is made.
Keep ==
    /\ pc = "built"
    /\ pc' = "idle"
    /\ kept' = [element |-> element, window |-> window, capture |-> capture]
    /\ capture' = NoCapture
    /\ UNCHANGED <<element, window, overlayVars, optionsVars, messageVars>>

NextRepeat ==
    \/ (\E n \in RepeatAttrNames : \E v \in RepeatAttrValues(n) : SetAttribute(n, v))
          /\ WithinEdits'
    \/ \E n \in RepeatAttrNames : RemoveAttribute(n)
    \/ (\E t \in RepeatTexts \cup {<<>>} : SetText(t)) /\ WithinEdits'
    \/ (\E p \in RepeatPlaces : Move(p)) /\ WithinEdits'
    \/ (\E t \in {<<" ", "S", "h", "o", "p", " ", "\n", " ", "h", "o", "m", "e", " ">>, <<>>} : SetTitle(t)) /\ WithinEdits'
    \/ (\E t \in {<<" ", "S", "a", "v", "e", " ">>, <<>>} : Select(t)) /\ WithinEdits'
    \/ Capture
    \/ Keep

SpecRepeat == InitRepeat /\ [][NextRepeat]_vars

----------------------------------------------------------------------------
(* Properties of two descriptions                                         *)

\* A description is built and the one before is kept.
BuiltAgain == Built /\ kept # NothingKept

\* The text the name is taken from: the first signal that is not empty, as
\* it stands in the page; null without one.
NameSource(e) ==
    LET signals == NameSignals(e)
        present == NonEmptySignals(signals)
    IN  IF present = {} THEN null
        ELSE signals[CHOOSE i \in present : \A j \in present : i <= j]

\* The words of a text: what stands between its whitespace.
Words(s) == NonEmptyOnly(SplitWs(s))

\* Two texts that differ in nothing but their whitespace.
SameWords(a, b) == a # null /\ b # null /\ Words(a) = Words(b)

\* The kept description and the new one are of elements with the same role
\* whose name-giving texts differ in nothing but their whitespace.
SameRoleSameWords ==
    /\ BuiltAgain
    /\ kept.capture.role = capture.role
    /\ SameWords(NameSource(kept.element), NameSource(element))

\* The key is the fallback key: element_ and the kind of the first candidate.
IsFallbackKey(c) == c.elementKey = <<"e", "l", "e", "m", "e", "n", "t", "_">> \o c.selectors[1].kind

\* C14 as stated: two elements with the same role whose name-giving texts
\* differ only in whitespace get the same name and the same element key, and
\* normalizing a name again changes nothing.
C14_SameNameSameKey ==
    SameRoleSameWords =>
        /\ capture.name = kept.capture.name
        /\ capture.elementKey = kept.capture.elementKey
        /\ normalizeWhitespace(capture.name) = capture.name

\* C14 as amended: two such elements get the same name, normalizing it again
\* changes nothing, and they get the same element key when the name is not
\* empty and neither key is the fallback key, which names the first candidate
\* and so follows the element's labels and attributes, not its name.
C14_SameNameSameKeyFromName ==
    SameRoleSameWords =>
        /\ capture.name = kept.capture.name
        /\ normalizeWhitespace(capture.name) = capture.name
        /\ normalizeWhitespace(normalizeWhitespace(NameSource(element)))
              = normalizeWhitespace(NameSource(element))
        /\ ( /\ Truthy(capture.name)
             /\ ~IsFallbackKey(capture)
             /\ ~IsFallbackKey(kept.capture) )
           => capture.elementKey = kept.capture.elementKey

\* Two elements at different places whose texts are the same words in
\* different whitespace, described with the same name and key.
C14_Witness ==
    /\ SameRoleSameWords
    /\ kept.element.place # element.place
    /\ NameSource(kept.element) # NameSource(element)
    /\ Truthy(capture.name)
    /\ ~IsFallbackKey(capture)
    /\ capture.elementKey = kept.capture.elementKey

\* The kept description was built of the same element in the same page.
SamePage == kept.element = element /\ kept.window = window

C16_SnippetWithinLimit ==
    Built => Len(capture.outerHTML) <= SnippetLimit

----------------------------------------------------------------------------
(* Properties of the element key                                           *)

\* The text the key is made of: the name, else the id, else the tag.
BaseText(e, c) ==
    IF Truthy(c.name) THEN c.name
    ELSE IF Truthy(IdOf(e)) THEN IdOf(e)
    ELSE toLowerCase(e.tagName)

\* A character of [A-Za-z0-9\s_-].
IsKeyChar(c) == IsPlain(c) \/ IsSpace(c)

\* The text without two underscores in a row.
Collapsed(s) ==
    LET stay == SelectSeq(Indices(s),
                          LAMBDA k : ~(s[k] = "_" /\ k > 1 /\ s[k - 1] = "_"))
    IN  [j \in DOMAIN stay |-> s[stay[j]]]

RolePrefix(c) == IF c.role # null THEN c.role \o <<"_">> ELSE <<>>

\* C22, as it is stated: the key is the role and an underscore, when a role
\* was resolved, before the words of the base text without its other
\* characters, joined by underscores and in lower case; with no two
\* underscores in a row; cut to 40 characters.
C22_KeyFromBaseText ==
    Built =>
        LET base == BaseText(element, capture)
            words == Words(SelectSeq(base, LAMBDA ch : IsKeyChar(ch)))
        IN  capture.elementKey =
                Slice(Collapsed(RolePrefix(capture) \o toLowerCase(Join(words, <<"_">>))),
                      KeyLimit)

\* The key the words of the base text give: every other character is a
\* blank between words, and the role is lowered with the rest.
KeyOfWords(e, c) ==
    LET base == BaseText(e, c)
        words == Words([i \in DOMAIN base |-> IF IsKeyChar(base[i]) THEN base[i] ELSE " "])
    IN  Slice(Collapsed(toLowerCase(RolePrefix(c) \o Join(words, <<"_">>))), KeyLimit)

\* C22: the key is the role and an underscore, when a role was resolved,
\* before the words of the base text, a character outside
\* [A-Za-z0-9\s_-] parting words as whitespace does, joined by underscores;
\* all of it, the role too, in lower case, with no two underscores in a
\* row, cut to 40 characters; unless that is empty, when the key is
\* 'element_' and the kind of the first candidate.
C22_KeyFromWords ==
    Built =>
        IF KeyOfWords(element, capture) # <<>>
        THEN capture.elementKey = KeyOfWords(element, capture)
        ELSE IsFallbackKey(capture)

\* An element with a role in capitals, named by a text with a character
\* that is no key character.
C22_Witness ==
    /\ Built
    /\ capture.role # null /\ toLowerCase(capture.role) # capture.role
    /\ Truthy(capture.name) /\ \E i \in DOMAIN capture.name : ~IsKeyChar(capture.name[i])
    /\ capture.elementKey = KeyOfWords(element, capture)

\* The words of the base text and the role give no key.
NoKeyOfWords == Built /\ KeyOfWords(element, capture) = <<>>

\* C23, as it is stated: a description has a candidate, its key is never
\* 'element_element', and when the role and the base text give no key, the
\* key is 'element_' and the kind of the first candidate.
C23_NeverElementElement ==
    Built =>
        /\ capture.selectors # <<>>
        /\ capture.elementKey # <<"e", "l", "e", "m", "e", "n", "t", "_", "e", "l", "e", "m", "e", "n", "t">>
        /\ NoKeyOfWords => capture.elementKey = <<"e", "l", "e", "m", "e", "n", "t", "_">> \o capture.selectors[1].kind

\* C23: a description has a candidate; when the role and the base text give
\* no key, no role was resolved, the base text has no letter, digit,
\* underscore or hyphen, and the key is 'element_' and the kind of the first
\* candidate, which is never 'element_element'.
C23_FallbackKey ==
    Built =>
        /\ capture.selectors # <<>>
        /\ NoKeyOfWords =>
              /\ capture.role = null
              /\ \A i \in DOMAIN BaseText(element, capture) :
                    ~IsPlain(BaseText(element, capture)[i])
              /\ capture.elementKey = <<"e", "l", "e", "m", "e", "n", "t", "_">> \o capture.selectors[1].kind
              /\ capture.elementKey # <<"e", "l", "e", "m", "e", "n", "t", "_", "e", "l", "e", "m", "e", "n", "t">>

\* An element named by a title of punctuation only: the css candidate is
\* its only one.
C23_Witness ==
    /\ NoKeyOfWords
    /\ Truthy(capture.name)
    /\ capture.elementKey = <<"e", "l", "e", "m", "e", "n", "t", "_", "c", "s", "s">>

----------------------------------------------------------------------------
(* The overlay editor: the textarea with the captured steps, the keyword   *)
(* bar, the AI button and the Copy button                                  *)

\* Most changes of the textarea's text (typing, deleting, keyword clicks, AI
\* requests) in one overlay.
MaxInputs == 2

\* Most clipboard writes of the Copy button under way at a time.
MaxWriting == 1

buildThenLine(c) ==
    IF Truthy(c.selectedText)
    THEN <<"T", "h", "e", "n", " ", "t", "h", "e", " ", "t", "e", "x", "t", " ", "\"">> \o c.selectedText \o <<"\"", " ", "s", "h", "o", "u", "l", "d", " ", "b", "e", " ", "v", "i", "s", "i", "b", "l", "e">>
    ELSE IF Truthy(c.imageName)
    THEN <<"T", "h", "e", "n", " ", "t", "h", "e", " ", "i", "m", "a", "g", "e", " ", "\"">> \o c.imageName \o <<"\"", " ", "s", "h", "o", "u", "l", "d", " ", "b", "e", " ", "v", "i", "s", "i", "b", "l", "e">>
    ELSE IF c.role = <<"l", "i", "n", "k">> /\ Truthy(c.name)
    THEN <<"T", "h", "e", "n", " ", "t", "h", "e", " ", "l", "i", "n", "k", " ", "\"">> \o c.name \o <<"\"", " ", "s", "h", "o", "u", "l", "d", " ", "b", "e", " ", "v", "i", "s", "i", "b", "l", "e">>
    ELSE <<"T", "h", "e", "n", " ", "t", "h", "e", " ", "\"">> \o c.elementKey \o <<"\"", " ", "s", "h", "o", "u", "l", "d", " ", "b", "e", " ", "v", "i", "s", "i", "b", "l", "e">>

formatClipboard(c) ==
    Join(<< <<"G", "i", "v", "e", "n", " ", "I", " ", "a", "m", " ", "o", "n", " ", "t", "h", "e", " ", "\"">> \o c.pageKey \o <<"\"", " ", "p", "a", "g", "e">>, buildThenLine(c) >>,
         <<"\n">>)

gherkinKeywords ==
    << <<"F", "e", "a", "t", "u", "r", "e">>, <<"R", "u", "l", "e">>, <<"B", "a", "c", "k", "g", "r", "o", "u", "n", "d">>, <<"S", "c", "e", "n", "a", "r", "i", "o">>, <<"S", "c", "e", "n", "a", "r", "i", "o", " ", "O", "u", "t", "l", "i", "n", "e">>,
       <<"E", "x", "a", "m", "p", "l", "e", "s">>, <<"G", "i", "v", "e", "n">>, <<"W", "h", "e", "n">>, <<"T", "h", "e", "n">>, <<"A", "n", "d">>, <<"B", "u", "t">> >>

\* What a textarea's value reads after s was assigned to it: every line
\* break (CR LF, CR) is a line feed.
TextareaValue(s) ==
    LET stay == SelectSeq(Indices(s),
                          LAMBDA k : ~(s[k] = "\n" /\ k > 1 /\ s[k - 1] = "\r"))
    IN  [j \in DOMAIN stay |-> IF s[stay[j]] = "\r" THEN "\n" ELSE s[stay[j]]]

\* The overlay showOverlay builds for a text: the textarea holds it with the
\* cursor at its end, the Copy button is disabled, and the clipboard holds
\* what handleCaptureAndCopy wrote before.
OverlayOf(text) ==
    [shown |-> TRUE,
     originalText |-> text,
     value |-> TextareaValue(text),
     selectionStart |-> Len(TextareaValue(text)),
     selectionEnd |-> Len(TextareaValue(text)),
     disabled |-> TRUE,
     generating |-> FALSE,
     writing |-> <<>>,
     clipboard |-> text,
     inputs |-> 0]

updateCopyState(ed) ==
    LET isDirty == ed.value # ed.originalText
    IN  [ed EXCEPT !.disabled = ~isDirty]

insertAtCursor(ed, insertText) ==
    LET start == ed.selectionStart
        end == ed.selectionEnd
        before == SubSeq(ed.value, 1, start)
        after == SubSeq(ed.value, end + 1, Len(ed.value))
        cursor == start + Len(insertText)
    IN  [ed EXCEPT !.value = TextareaValue(before \o insertText \o after),
                   !.selectionStart = cursor,
                   !.selectionEnd = cursor]

\* What generateScenario returns: null (an error, or no scenario in the
\* answer), the captured steps with the line breaks of another platform, a
\* scenario.
Scenarios(ed) ==
    { null,
      Join(SplitBy(ed.originalText, "\n"), <<"\r", "\n">>),
      <<"S", "c", "e", "n", "a", "r", "i", "o", ":", " ", "x", "\r", "\n", " ", " ", "T", "h", "e", "n", " ", "y">> }

\* The page the overlay specification starts from: a link.
InitOverlay ==
    /\ element = [Bare(<<"A">>) EXCEPT !.attrs = [n \in {"href"} |-> <<"/", "x">>],
                                      !.textContent = <<"C", "a", "r", "t">>]
    /\ pc = "idle"
    /\ capture = NoCapture
    /\ window = PlainWindow
    /\ kept = NothingKept
    /\ editor = NoOverlay
    /\ options = NoOptions
    /\ content = IdleContent
    /\ worker = IdleWorker
    /\ offscreen = IdleOffscreen

\* handleCaptureAndCopy from the description on: the steps are written to
\* the clipboard and the overlay is shown with them, in place of an overlay
\* shown before; the description is the response's data.
ShowOverlay ==
    /\ pc = "built"
    /\ pc' = "idle"
    /\ editor' = OverlayOf(formatClipboard(capture))
    /\ kept' = [element |-> element, window |-> window, capture |-> capture]
    /\ capture' = NoCapture
    /\ UNCHANGED <<element, window, optionsVars, messageVars>>

\* The user puts the cursor or the selection somewhere in the textarea.
SelectRange(start, end) ==
    /\ editor.shown
    /\ 0 <= start /\ start <= end /\ end <= Len(editor.value)
    /\ <<editor.selectionStart, editor.selectionEnd>> # <<start, end>>
    /\ editor' = [editor EXCEPT !.selectionStart = start, !.selectionEnd = end]
    /\ UNCHANGED <<descriptionVars, optionsVars, messageVars>>

\* The user types a character: it replaces the selection, and the input
\* event runs updateCopyState.
TypeText(c) ==
    /\ editor.shown
    /\ editor.inputs < MaxInputs
    /\ editor' = updateCopyState(
                     [insertAtCursor(editor, c) EXCEPT !.inputs = editor.inputs + 1])
    /\ UNCHANGED <<descriptionVars, optionsVars, messageVars>>

\* The user deletes: the selection, or without one the character before
\* the cursor; the input event runs updateCopyState.
DeleteText ==
    /\ editor.shown
    /\ editor.inputs < MaxInputs
    /\ editor.selectionEnd > 0
    /\ LET from == IF editor.selectionStart < editor.selectionEnd
                   THEN editor.selectionStart ELSE editor.selectionStart - 1
           cut == [editor EXCEPT !.selectionStart = from]
       IN  editor' = updateCopyState(
                         [insertAtCursor(cut, <<>>) EXCEPT !.inputs = editor.inputs + 1])
    /\ UNCHANGED <<descriptionVars, optionsVars, messageVars>>

\* The click handler of a keyword button as it would be without its last
\* statement.
KeywordClickStale(keyword) ==
    /\ editor.shown
    /\ editor.inputs < MaxInputs
    /\ keyword \in Range(gherkinKeywords)
    /\ editor' = [insertAtCursor(editor, keyword \o <<" ">>) EXCEPT !.inputs = editor.inputs + 1]
    /\ UNCHANGED <<descriptionVars, optionsVars, messageVars>>

\* The click handler of a keyword button.
KeywordClick(keyword) ==
    /\ editor.shown
    /\ editor.inputs < MaxInputs
    /\ keyword \in Range(gherkinKeywords)
    /\ editor' = updateCopyState(
                     [insertAtCursor(editor, keyword \o <<" ">>)
                          EXCEPT !.inputs = editor.inputs + 1])
    /\ UNCHANGED <<descriptionVars, optionsVars, messageVars>>

\* The click handler of the AI button up to its await: the button is
\* disabled while the request runs.
AiClick ==
    /\ editor.shown
    /\ ~editor.generating
    /\ editor.inputs < MaxInputs
    /\ editor' = [editor EXCEPT !.generating = TRUE, !.inputs = editor.inputs + 1]
    /\ UNCHANGED <<descriptionVars, optionsVars, messageVars>>

\* The rest of the AI button's handler: a scenario replaces the text, which
\* leaves the cursor at its end.
AiDone(scenario) ==
    /\ editor.shown
    /\ editor.generating
    /\ editor' =
          IF Truthy(scenario)
          THEN updateCopyState(
                   [editor EXCEPT !.value = TextareaValue(scenario),
                                  !.selectionStart = Len(TextareaValue(scenario)),
                                  !.selectionEnd = Len(TextareaValue(scenario)),
                                  !.generating = FALSE])
          ELSE [editor EXCEPT !.generating = FALSE]
    /\ UNCHANGED <<descriptionVars, optionsVars, messageVars>>

\* The click handler of the Copy button up to its await: nothing on a
\* disabled button, else writeClipboard is called with the text as it is.
CopyClick ==
    /\ editor.shown
    /\ Len(editor.writing) < MaxWriting
    /\ editor' = IF editor.disabled THEN editor
                 ELSE [editor EXCEPT !.writing = Append(editor.writing, editor.value)]
    /\ UNCHANGED <<descriptionVars, optionsVars, messageVars>>

\* A clipboard write of the Copy button ends: done, the clipboard holds the
\* text and the handler runs updateCopyState; refused, the handler ends.
CopyDone(i, done) ==
    /\ editor.shown
    /\ i \in DOMAIN editor.writing
    /\ LET rest == SubSeq(editor.writing, 1, i - 1)
                       \o SubSeq(editor.writing, i + 1, Len(editor.writing))
       IN  editor' =
              IF done
              THEN updateCopyState([editor EXCEPT !.writing = rest,
                                                  !.clipboard = editor.writing[i]])
              ELSE [editor EXCEPT !.writing = rest]
    /\ UNCHANGED <<descriptionVars, optionsVars, messageVars>>

\* The Close button: overlay.remove().
CloseOverlay ==
    /\ editor.shown
    /\ editor' = NoOverlay
    /\ UNCHANGED <<descriptionVars, optionsVars, messageVars>>

\* The end of the first word of the text, the blank after it included.
FirstWordEnd(s) ==
    LET blanks == {i \in DOMAIN s : s[i] = " "}
    IN  IF blanks = {} THEN Len(s) ELSE CHOOSE i \in blanks : \A j \in blanks : i <= j

NextOverlay ==
    \/ Capture
    \/ ShowOverlay
    \/ \E r \in { <<0, Len(editor.value)>>, <<0, FirstWordEnd(editor.value)>>,
                  <<Len(editor.value), Len(editor.value)>> } : SelectRange(r[1], r[2])
    \/ TypeText(<<"x">>)
    \/ DeleteText
    \/ \E keyword \in { <<"G", "i", "v", "e", "n">> } : KeywordClick(keyword)
    \/ AiClick
    \/ \E scenario \in Scenarios(editor) : AiDone(scenario)
    \/ CopyClick
    \/ \E i \in 1..MaxWriting, done \in BOOLEAN : CopyDone(i, done)
    \/ CloseOverlay

SpecOverlay == InitOverlay /\ [][NextOverlay]_vars

----------------------------------------------------------------------------
(* Properties of the overlay editor                                        *)

----------------------------------------------------------------------------
(* The options page: the site-to-project mapping, typed one line per site  *)
(* and stored as an object                                                 *)

\* Most lines of the mapping textarea.
MaxLines == 2

\* String.prototype.toUpperCase, character by character.
toUpperCase(s) ==
    [i \in DOMAIN s |->
        IF IsLower(s[i])
        THEN UpperLetters[CHOOSE k \in DOMAIN LowerLetters : LowerLetters[k] = s[i]]
        ELSE s[i]]

\* mapping[name] = value on an object created by {}: its own properties in
\* the order they were created in.  __proto__ is no own property but the
\* accessor of Object.prototype, whose setter ignores a string.
SetProperty(mapping, name, value) ==
    IF name = <<"_", "_", "p", "r", "o", "t", "o", "_", "_">> THEN mapping
    ELSE IF \E i \in DOMAIN mapping : mapping[i].domain = name
         THEN [i \in DOMAIN mapping |->
                  IF mapping[i].domain = name
                  THEN [domain |-> name, key |-> value] ELSE mapping[i]]
         ELSE Append(mapping, [domain |-> name, key |-> value])

\* The forEach of parseMapping from line i on.  A line without "=" has no
\* second part (undefined, which is falsy as "" is).
RECURSIVE ParseLines(_, _, _)
ParseLines(lines, i, mapping) ==
    IF i > Len(lines) THEN mapping
    ELSE LET split == SplitBy(lines[i], "=")
             parts == [j \in DOMAIN split |-> Trim(split[j])]
             domain == parts[1]
             key == IF Len(parts) >= 2 THEN parts[2] ELSE <<>>
         IN  ParseLines(lines, i + 1,
                        IF Truthy(domain) /\ Truthy(key)
                        THEN SetProperty(mapping, toLowerCase(domain), toUpperCase(key))
                        ELSE mapping)

parseMapping(text) ==
    LET split == SplitBy(text, "\n")
        trimmed == [j \in DOMAIN split |-> Trim(split[j])]
    IN  ParseLines(NonEmptyOnly(trimmed), 1, <<>>)

mappingToText(mapping) ==
    Join([i \in DOMAIN mapping |-> mapping[i].domain \o <<"=">> \o mapping[i].key],
         <<"\n">>)

\* Lines a user types into the mapping textarea.
MappingLines ==
    { <<"s", "h", "o", "p", ".", "t", "e", "s", "t", "=", "a", "b">>, <<" ", "S", "h", "o", "p", ".", "T", "e", "s", "t", " ", "=", " ", "C", "d", " ">>, <<"x", ".", "i", "o", "=", "q", "1", "=", "r">>, <<"n", "o", "k", "e", "y", "=">>,
      <<"=", "K", "E", "Y">>, <<"p", "l", "a", "i", "n">>, <<>>, <<"_", "_", "p", "r", "o", "t", "o", "_", "_", "=", "z", "z">> }

\* The texts of at most n such lines.
RECURSIVE TextsOf(_)
TextsOf(n) ==
    IF n = 1 THEN MappingLines
    ELSE TextsOf(n - 1)
             \cup {t \o <<"\n">> \o l : t \in TextsOf(n - 1), l \in MappingLines}

\* The options page before it is opened: nothing stored, the textarea empty.
InitOptions ==
    /\ element = Bare(<<"D", "I", "V">>)
    /\ pc = "idle"
    /\ capture = NoCapture
    /\ window = PlainWindow
    /\ kept = NothingKept
    /\ editor = NoOverlay
    /\ options = NoOptions
    /\ content = IdleContent
    /\ worker = IdleWorker
    /\ offscreen = IdleOffscreen

\* The page is opened: loadConfig fills the textarea from the stored
\* configuration, when there is one.
loadConfig ==
    /\ ~options.open
    /\ options' = [options EXCEPT
                      !.open = TRUE,
                      !.mappingEl = IF options.saved
                                    THEN mappingToText(options.mapping) ELSE <<>>]
    /\ UNCHANGED <<descriptionVars, overlayVars, messageVars>>

\* The user types the mapping.
EditMapping(text) ==
    /\ options.open
    /\ options.mappingEl # text
    /\ options' = [options EXCEPT !.mappingEl = text]
    /\ UNCHANGED <<descriptionVars, overlayVars, messageVars>>

\* The Save button (and the Test button before its request).
saveConfig ==
    /\ options.open
    /\ options' = [options EXCEPT !.saved = TRUE,
                                  !.mapping = parseMapping(options.mappingEl)]
    /\ UNCHANGED <<descriptionVars, overlayVars, messageVars>>

\* The options page is closed.
CloseOptions ==
    /\ options.open
    /\ options' = [options EXCEPT !.open = FALSE, !.mappingEl = <<>>]
    /\ UNCHANGED <<descriptionVars, overlayVars, messageVars>>

NextOptions ==
    \/ loadConfig
    \/ \E text \in TextsOf(MaxLines) : EditMapping(text)
    \/ saveConfig
    \/ CloseOptions

SpecOptions == InitOptions /\ [][NextOptions]_vars

----------------------------------------------------------------------------
(* Properties of the mapping                                               *)

\* The lines of a text as parseMapping looks at them, and the two parts of
\* a line: what stands before its first "=" and what stands between its
\* first and its second, without the whitespace around them.
LinesOf(text) == SplitBy(text, "\n")

DomainPart(line) == Trim(SplitBy(Trim(line), "=")[1])

KeyPart(line) ==
    LET split == SplitBy(Trim(line), "=")
    IN  IF Len(split) >= 2 THEN Trim(split[2]) ELSE <<>>

\* The lines with a domain and a key.
Complete(text) ==
    {i \in DOMAIN LinesOf(text) :
        DomainPart(LinesOf(text)[i]) # <<>> /\ KeyPart(LinesOf(text)[i]) # <<>>}

\* The mapping read as a set of pairs.
Pairs(mapping) == {<<mapping[i].domain, mapping[i].key>> : i \in DOMAIN mapping}

\* What was saved is what the textarea holds.
SavedAsTyped == options.open /\ options.saved /\ options.mapping = parseMapping(options.mappingEl)

\* C18: the saved mapping holds exactly one entry for every line of the
\* textarea that has a non-empty domain and a non-empty key, the domain in
\* lower case and the key in upper case, the last such line of a domain
\* deciding its key, and nothing for any other line; and writing a saved
\* mapping out and parsing it again gives the same mapping.
C18_ParseMapping ==
    /\ SavedAsTyped =>
          LET lines == LinesOf(options.mappingEl)
              complete == Complete(options.mappingEl)
          IN  Pairs(options.mapping) =
                  { <<toLowerCase(DomainPart(lines[i])), toUpperCase(KeyPart(lines[i]))>> :
                      i \in {k \in complete :
                                \A j \in complete :
                                    toLowerCase(DomainPart(lines[j])) = toLowerCase(DomainPart(lines[k]))
                                        => j <= k} }
    /\ options.saved => parseMapping(mappingToText(options.mapping)) = options.mapping


----------------------------------------------------------------------------
(* The capture target and the capture-and-copy message                     *)
(* (content_script.ts, lines 23-85 and 497-541)                            *)

\* How many context-menu events the model follows.
MaxMenus == 2

\* document.contains(n) in the page c, whose document element is html, with
\* the body in it and a and b in the body: n and every ancestor of n is
\* attached to its parent.  A detached element keeps its own children.
contains(c, n) ==
    /\ n \in c.attached
    /\ n \in {"a", "b"} => "body" \in c.attached
    /\ n \in {"a", "b", "body"} => "html" \in c.attached

\* document.body: the body element of the document element, or null.
body(c) == IF contains(c, "body") THEN "body" ELSE "null"

\* document.activeElement: the focused element; with nothing focused the
\* body, without a body the document element, without either null.
activeElement(c) ==
    IF contains(c, c.focused) THEN c.focused
    ELSE IF body(c) # "null" THEN "body"
    ELSE IF contains(c, "html") THEN "html"
    ELSE "null"

\* pickTargetElement with the document.contains test left out.
pickTargetElementStale(c) ==
    IF c.lastRightClickedElement # "null" THEN c.lastRightClickedElement
    ELSE IF activeElement(c) # "null" /\ activeElement(c) # body(c)
         THEN activeElement(c)
    ELSE body(c)

pickTargetElement(c) ==
    IF /\ c.lastRightClickedElement # "null"
       /\ contains(c, c.lastRightClickedElement)
    THEN c.lastRightClickedElement
    ELSE IF activeElement(c) # "null" /\ activeElement(c) # body(c)
         THEN activeElement(c)
    ELSE body(c)

InitMessages ==
    /\ element = Bare(<<"D", "I", "V">>)
    /\ pc = "idle"
    /\ capture = NoCapture
    /\ window = PlainWindow
    /\ kept = NothingKept
    /\ editor = NoOverlay
    /\ options = NoOptions
    /\ content = IdleContent
    /\ worker = IdleWorker
    /\ offscreen = IdleOffscreen

\* A contextmenu event reaches the document's capturing listener: its target
\* is an element in the document, or the document itself, which is no
\* Element and leaves lastRightClickedElement alone.
ContextMenu(t) ==
    /\ Len(content.menus) < MaxMenus
    /\ t = "document" \/ contains(content, t)
    /\ content' = [content EXCEPT
           !.menus = Append(@, t),
           !.lastRightClickedElement = IF t # "document" THEN t ELSE @]
    /\ UNCHANGED <<descriptionVars, overlayVars, optionsVars, worker, offscreen>>

\* The page removes an element from its parent, or puts a removed element
\* back.  Focus does not stay on an element that left the document.
SetAttached(n, on) ==
    /\ (n \in content.attached) # on
    /\ LET moved == [content EXCEPT
                        !.attached = IF on THEN @ \cup {n} ELSE @ \ {n}]
       IN content' = [moved EXCEPT
              !.focused = IF contains(moved, @) THEN @ ELSE "null"]
    /\ UNCHANGED <<descriptionVars, overlayVars, optionsVars, worker, offscreen>>

\* Focus moves to an element of the document, or to none of them.
Focus(n) ==
    /\ n # content.focused
    /\ n = "null" \/ contains(content, n)
    /\ content' = [content EXCEPT !.focused = n]
    /\ UNCHANGED <<descriptionVars, overlayVars, optionsVars, worker, offscreen>>

\* The response to the capture-and-copy message.
Failure(error) == [ok |-> FALSE, error |-> error, data |-> "null"]

\* showOverlay and the return of handleCaptureAndCopy in the page c:
\* showOverlay appends the overlay to document.body, and throws without one.
showOverlayAndReturn(c) ==
    IF body(c) = "null"
    THEN [c EXCEPT !.request = "done",
                   !.responses = Append(@, Failure("TypeError"))]
    ELSE [c EXCEPT !.request = "done", !.overlay = TRUE,
                   !.responses = Append(@, [ok |-> TRUE, error |-> "null",
                                            data |-> c.target])]

\* A capture-and-copy message arrives.  The target is picked; navigator
\* .clipboard.writeText is awaited when the page has it (api), otherwise a
\* textarea in document.body is focused, selected and removed again, and
\* document.execCommand("copy") copies it or returns false (copied).
\* visible: getCaptureRect finds a rectangle, and the snapshot is requested
\* before the overlay is shown.
handleCaptureAndCopy(api, copied, visible) ==
    /\ content.request \in {"idle", "done"}
    /\ LET target == pickTargetElement(content)
           begun == [content EXCEPT !.target = target,
                                    !.clipboard = "empty", !.overlay = FALSE,
                                    !.snapshotUrl = "null", !.responses = <<>>]
       IN content' =
              IF target = "null"
              THEN [begun EXCEPT !.request = "done",
                       !.responses = <<Failure("No element found.")>>]
              ELSE IF api THEN [begun EXCEPT !.request = "writeText"]
              ELSE IF body(content) = "null"
                   THEN [begun EXCEPT !.request = "done",
                            !.responses = <<Failure("TypeError")>>]
              ELSE LET written == [begun EXCEPT
                           !.focused = "null",
                           !.clipboard = IF copied THEN "output" ELSE "empty"]
                   IN IF visible
                      THEN [written EXCEPT !.request = "requestSnapshot"]
                      ELSE showOverlayAndReturn(written)
    /\ UNCHANGED <<descriptionVars, overlayVars, optionsVars, worker, offscreen>>

\* navigator.clipboard.writeText settles: rejected, which the listener's
\* catch turns into the response, or fulfilled, and handleCaptureAndCopy
\* goes on with getCaptureRect (visible).
writeClipboard(fulfilled, visible) ==
    /\ content.request = "writeText"
    /\ content' =
           IF ~fulfilled
           THEN [content EXCEPT !.request = "done",
                    !.responses = Append(@, Failure("NotAllowedError"))]
           ELSE IF visible
                THEN [content EXCEPT !.clipboard = "output",
                                     !.request = "requestSnapshot"]
           ELSE showOverlayAndReturn([content EXCEPT !.clipboard = "output"])
    /\ UNCHANGED <<descriptionVars, overlayVars, optionsVars, worker, offscreen>>

\* The callback of the capture:snapshot-preview message runs: with a data
\* URL, or with null after lastError or a response that is not ok.
requestSnapshot(dataUrl) ==
    /\ content.request = "requestSnapshot"
    /\ content' = showOverlayAndReturn([content EXCEPT
                                            !.snapshotUrl = dataUrl])
    /\ UNCHANGED <<descriptionVars, overlayVars, optionsVars, worker, offscreen>>

NextCapture ==
    \/ \E t \in {"html", "body", "a", "b"} \cup {"document"} : ContextMenu(t)
    \/ \E n \in {"html", "body", "a", "b"}, on \in BOOLEAN : SetAttached(n, on)
    \/ \E n \in {"html", "body", "a", "b"} \cup {"null"} : Focus(n)
    \/ \E api, copied, visible \in BOOLEAN :
           handleCaptureAndCopy(api, copied, visible)
    \/ \E fulfilled, visible \in BOOLEAN : writeClipboard(fulfilled, visible)
    \/ \E dataUrl \in {"null", "data:image/png"} : requestSnapshot(dataUrl)

\* The browser settles every promise the handler awaits.
SpecCapture ==
    /\ InitMessages
    /\ [][NextCapture]_vars
    /\ WF_vars(\E fulfilled, visible \in BOOLEAN : writeClipboard(fulfilled, visible))
    /\ WF_vars(\E dataUrl \in {"null", "data:image/png"} :
                  requestSnapshot(dataUrl))

----------------------------------------------------------------------------
(* Claims about the capture target and the capture-and-copy message        *)

\* The target of the most recent context-menu event on an element, null
\* when there was none.
MostRecentElementTarget ==
    LET onElement == {i \in 1..Len(content.menus) :
                         content.menus[i] # "document"}
    IN IF onElement = {} THEN "null"
       ELSE content.menus[CHOOSE i \in onElement :
                              \A j \in onElement : j <= i]

\* The answers of a capture-and-copy request so far that say
\* 'No element found.'.
NoElementFound ==
    \E i \in 1..Len(content.responses) :
        content.responses[i].error = "No element found."

\* C24, as stated: the capture target is the target of the most recent
\* context-menu event on an element if that element is still contained in
\* the document, otherwise the focused element if it is not the body,
\* otherwise the body; it is never null and 'No element found.' is never
\* returned.
C24_TargetNeverNull ==
    /\ pickTargetElement(content) =
           IF /\ MostRecentElementTarget # "null"
              /\ contains(content, MostRecentElementTarget)
           THEN MostRecentElementTarget
           ELSE IF content.focused \notin {"null", "body"}
                THEN content.focused
           ELSE "body"
    /\ pickTargetElement(content) # "null"
    /\ ~NoElementFound

\* C24, amended: the capture target is the target of the most recent
\* context-menu event on an element if that element is still contained in
\* the document, otherwise the focused element if it is not the body,
\* otherwise the body, without a body the document element, and null
\* without a document element; 'No element found.' is returned exactly for
\* a null target.
C24_TargetPicked ==
    /\ pickTargetElement(content) =
           IF /\ MostRecentElementTarget # "null"
              /\ contains(content, MostRecentElementTarget)
           THEN MostRecentElementTarget
           ELSE IF content.focused \notin {"null", "body"}
                THEN content.focused
           ELSE IF contains(content, "body") THEN "body"
           ELSE IF contains(content, "html") THEN "html"
           ELSE "null"
    /\ content.request # "idle" =>
           (NoElementFound <=> content.target = "null")
    /\ content.request # "idle" /\ content.target # "null" =>
           content.target \in {"html", "body", "a", "b"}

\* A capture was answered with the focused element as its target, after
\* the element right-clicked last had left the document.
C24_Witness ==
    /\ MostRecentElementTarget = "a"
    /\ ~contains(content, "a")
    /\ content.focused = "b"
    /\ content.request = "done"
    /\ content.target = "b"
    /\ Len(content.responses) = 1
    /\ content.responses[1].ok

\* C29, as stated: every capture-and-copy message gets exactly one
\* response, ok:true with the description after the clipboard write has
\* completed and the overlay has been shown, or ok:false with an error;
\* the overlay is shown only after the clipboard write has succeeded, and
\* a failed snapshot request does not fail the capture.
C29_CaptureAnswered ==
    /\ [](/\ Len(content.responses) <= 1
          /\ content.request = "done" <=> Len(content.responses) = 1
          /\ \A i \in 1..Len(content.responses) :
                 IF content.responses[i].ok
                 THEN /\ content.overlay
                      /\ content.responses[i].data = content.target
                 ELSE /\ ~content.overlay
                      /\ content.responses[i].error # "null"
          /\ content.overlay => content.clipboard = "output")
    /\ [][/\ content.request = "requestSnapshot"
           /\ content'.request = "done"
           /\ body(content) # "null"
           => content'.responses[1].ok]_vars
    /\ (content.request \notin {"idle", "done"}) ~> (content.request = "done")

----------------------------------------------------------------------------
(* The recorder of the offscreen document (src/unnamed/part_000; the       *)
(* recorder and chunks of src/src/offscreen/offscreen.ts are the same)     *)

\* How many MediaRecorder objects the model constructs, and how far the
\* clock behind Date.now() runs.
MaxRecorders == 2

MaxTime == 2


\* A record:start message: startRecording up to its await.  Without a
\* stream id and with a recorder set it answers at once; otherwise it asks
\* for the media stream and is suspended.
startRecording(hasStreamId) ==
    /\ hasStreamId /\ offscreen.recorder = 0 =>
           offscreen.created + offscreen.acquiring < MaxRecorders
    /\ offscreen' =
           IF ~hasStreamId
           THEN [offscreen EXCEPT
                    !.last = Answer("record:start", FALSE, "Missing streamId")]
           ELSE IF offscreen.recorder # 0
                THEN [offscreen EXCEPT
                         !.last = Answer("record:start", FALSE,
                                         "Already recording")]
           ELSE [offscreen EXCEPT !.acquiring = @ + 1,
                    !.last = Answer("record:start", FALSE, "pending")]
    /\ UNCHANGED <<descriptionVars, overlayVars, optionsVars, content, worker>>

\* getUserMedia settles for a suspended startRecording: rejected, the catch
\* answers with the error; fulfilled, chunks is emptied, a new recorder is
\* constructed, stored in recorder and started.
getUserMedia(granted) ==
    /\ offscreen.acquiring > 0
    /\ offscreen' =
           IF ~granted
           THEN [offscreen EXCEPT !.acquiring = @ - 1,
                    !.last = Answer("record:start", FALSE, "NotAllowedError")]
           ELSE [offscreen EXCEPT
                    !.acquiring = @ - 1,
                    !.chunks = <<>>,
                    !.created = @ + 1,
                    !.recorder = offscreen.created + 1,
                    !.recording = @ \cup {offscreen.created + 1},
                    !.last = Answer("record:start", TRUE, "null")]
    /\ UNCHANGED <<descriptionVars, overlayVars, optionsVars, content, worker>>

\* A record:stop message: stopRecording up to its await.  Without a
\* recorder it answers 'Not recording'; otherwise it stops the recorder,
\* clears the variable and waits for the recorder's stop event.
stopRecording ==
    /\ offscreen' =
           IF offscreen.recorder = 0
           THEN [offscreen EXCEPT
                    !.last = Answer("record:stop", FALSE, "Not recording")]
           ELSE [offscreen EXCEPT
                    !.recorder = 0,
                    !.recording = @ \ {offscreen.recorder},
                    !.stopping = @ \cup {offscreen.recorder},
                    !.last = Answer("record:stop", FALSE, "pending")]
    /\ UNCHANGED <<descriptionVars, overlayVars, optionsVars, content, worker>>

\* The task MediaRecorder.stop() queued for recorder r runs: dataavailable
\* hands over what r recorded, which ondataavailable pushes to chunks, and
\* stop runs the onstop that stopRecording installed: the blob is made of
\* chunks, stored under rec-<Date.now()> and named in the answer.
\* now: what Date.now() returns, not less than at the stop before.
onstop(r, now) ==
    /\ r \in offscreen.stopping
    /\ now >= offscreen.now
    /\ LET blob == Append(offscreen.chunks, r)
           recordingId == now
       IN offscreen' = [offscreen EXCEPT
              !.stopping = @ \ {r},
              !.now = now,
              !.chunks = blob,
              !.recordings =
                  [id \in DOMAIN @ \cup {recordingId} |->
                      IF id = recordingId THEN blob ELSE @[id]],
              !.last = [type |-> "record:stop", ok |-> TRUE,
                        error |-> "null", recorder |-> r,
                        recordingId |-> recordingId]]
    /\ UNCHANGED <<descriptionVars, overlayVars, optionsVars, content, worker>>

\* A record:upload message: uploadRecording up to its await.  complete:
\* the message names recording, base URL, authorization and issue.
uploadRecording(recordingId, complete) ==
    /\ recordingId \notin offscreen.uploading
    /\ offscreen' =
           IF ~complete
           THEN [offscreen EXCEPT
                    !.last = Answer("record:upload", FALSE,
                                    "Missing upload parameters")]
           ELSE IF recordingId \notin DOMAIN offscreen.recordings
                THEN [offscreen EXCEPT
                         !.last = Answer("record:upload", FALSE,
                                         "Recording not found")]
           ELSE [offscreen EXCEPT !.uploading = @ \cup {recordingId},
                    !.last = Answer("record:upload", FALSE, "pending")]
    /\ UNCHANGED <<descriptionVars, overlayVars, optionsVars, content, worker>>

\* The fetch of an upload settles: with an OK response the recording is
\* deleted, with another response it is kept; a fetch that throws rejects
\* uploadRecording, which answers nothing.
fetchAttachment(recordingId, outcome) ==
    /\ recordingId \in offscreen.uploading
    /\ offscreen' =
           CASE outcome = "ok" ->
                  [offscreen EXCEPT
                      !.uploading = @ \ {recordingId},
                      !.recordings = [id \in DOMAIN @ \ {recordingId} |-> @[id]],
                      !.last = Answer("record:upload", TRUE, "null")]
             [] outcome = "status" ->
                  [offscreen EXCEPT
                      !.uploading = @ \ {recordingId},
                      !.last = Answer("record:upload", FALSE, "Upload failed")]
             [] OTHER ->
                  [offscreen EXCEPT !.uploading = @ \ {recordingId}]
    /\ UNCHANGED <<descriptionVars, overlayVars, optionsVars, content, worker>>

NextRecorder ==
    \/ \E hasStreamId \in BOOLEAN : startRecording(hasStreamId)
    \/ \E granted \in BOOLEAN : getUserMedia(granted)
    \/ stopRecording
    \/ \E r \in 1..MaxRecorders, now \in 1..MaxTime : onstop(r, now)
    \/ \E recordingId \in 1..MaxTime, complete \in BOOLEAN :
           uploadRecording(recordingId, complete)
    \/ \E recordingId \in 1..MaxTime,
          outcome \in {"ok", "status", "TypeError"} :
           fetchAttachment(recordingId, outcome)

SpecRecorder == InitMessages /\ [][NextRecorder]_vars

----------------------------------------------------------------------------
(* Claims about the recorder                                               *)

\* C26: at most one recording is active at any time; a record:start that
\* arrives while a recording is active or while an earlier start is still
\* acquiring its media stream is rejected with 'Already recording' and
\* neither replaces nor leaks the existing recorder.
C26_OneRecording ==
    /\ [](/\ Cardinality(offscreen.recording) <= 1
          /\ offscreen.recording \subseteq {offscreen.recorder})
    /\ [][/\ startRecording(TRUE)
           /\ (offscreen.recorder # 0 \/ offscreen.acquiring > 0)
           => /\ offscreen'.last.error = "Already recording"
              /\ offscreen' = [offscreen EXCEPT !.last = offscreen'.last]]_vars

\* C27: the recording stopRecording returns holds exactly the chunks its
\* recorder produced, also when a new record:start was processed before
\* the stopped recorder's stop event; a stop without an active recording
\* answers 'Not recording' and changes nothing.
C27_ExactChunks ==
    /\ [][\A r \in 1..MaxRecorders, now \in 1..MaxTime :
              onstop(r, now) =>
                  /\ offscreen'.last.ok
                  /\ offscreen'.recordings[offscreen'.last.recordingId]
                         = <<r>>]_vars
    /\ [][stopRecording /\ offscreen.recorder = 0
           => /\ offscreen'.last.error = "Not recording"
              /\ offscreen' = [offscreen EXCEPT !.last = offscreen'.last]]_vars

\* C28: a stored recording stays under its id, unchanged, until an upload
\* of it succeeds, which removes exactly that recording; an upload with
\* missing parameters, of an unknown id or with a response that is not OK
\* answers ok:false and leaves the recordings as they are; a later stop
\* never overwrites a recording that was not uploaded.
C28_RecordingKept ==
    /\ [][\A id \in DOMAIN offscreen.recordings :
              \/ /\ id \in DOMAIN offscreen'.recordings
                 /\ offscreen'.recordings[id] = offscreen.recordings[id]
              \/ /\ fetchAttachment(id, "ok")
                 /\ offscreen'.last.ok
                 /\ DOMAIN offscreen'.recordings
                        = DOMAIN offscreen.recordings \ {id}]_vars
    /\ [][\A id \in 1..MaxTime :
              /\ uploadRecording(id, FALSE) =>
                     offscreen'.last.error = "Missing upload parameters"
              /\ (uploadRecording(id, TRUE)
                     /\ id \notin DOMAIN offscreen.recordings) =>
                     offscreen'.last.error = "Recording not found"
              /\ fetchAttachment(id, "status") =>
                     /\ ~offscreen'.last.ok
                     /\ offscreen'.recordings = offscreen.recordings]_vars

----------------------------------------------------------------------------
(* The jira:create-issue handler of the service worker                     *)
(* (src/src/sw/service_worker.ts, lines 269-274, 417-568, 713-738)         *)

\* The checks of handleJiraCreateIssue with the project key tested first.
missingProjectFirst(config, message) ==
    IF ~Truthy(message.projectKey) THEN "Missing project key."
    ELSE IF ~Truthy(config.baseUrl) \/ ~Truthy(config.email)
            \/ ~Truthy(config.token)
         THEN "Missing Jira configuration."
    ELSE IF message.summary = null \/ ~Truthy(Trim(message.summary))
         THEN "Missing summary."
    ELSE "null"

\* The checks handleJiraCreateIssue makes before it sends anything: the
\* error it returns, "null" when the message passes.  A configuration that
\* is not stored at all has no field.
missing(config, message) ==
    IF ~Truthy(config.baseUrl) \/ ~Truthy(config.email)
       \/ ~Truthy(config.token)
    THEN "Missing Jira configuration."
    ELSE IF ~Truthy(message.projectKey) THEN "Missing project key."
    ELSE IF message.summary = null \/ ~Truthy(Trim(message.summary))
         THEN "Missing summary."
    ELSE "null"

\* A jira:create-issue message arrives: handleJiraCreateIssue up to its
\* first request.  A message that fails a check is answered at once; for
\* the others the issue type is chosen, the issue is posted, and what is
\* awaited after it is laid out: the snapshot (given as a data URL, or
\* captured from the tab and then uploaded), the recording (given as a data
\* URL and uploaded, or uploaded by the offscreen document), the comments.
handleJiraCreateIssue(config, message) ==
    /\ worker.step = "idle"
    /\ LET error == missing(config, message)
           snapshot == CASE message.snapshot = "dataUrl" -> <<"uploadAttachment">>
                         [] message.snapshot = "rect" ->
                                <<"captureAndCropTab", "uploadAttachment">>
                         [] OTHER -> <<>>
           recording == CASE message.recording = "dataUrl" -> <<"uploadAttachment">>
                          [] message.recording = "id" -> <<"sendToOffscreen">>
                          [] OTHER -> <<>>
           comments == [i \in 1..message.comments |-> "comment"]
       IN worker' =
              IF error # "null"
              THEN [worker EXCEPT
                       !.step = "done", !.config = config, !.message = message,
                       !.responses = <<[ok |-> FALSE, error |-> error]>>]
              ELSE [worker EXCEPT
                       !.step = "awaiting", !.config = config,
                       !.message = message,
                       !.issueType =
                           IF toLowerCase(message.issueType) = <<"b", "u", "g">>
                           THEN "Bug" ELSE "Task",
                       !.requests = <<"issue">>,
                       !.todo = <<"issue">> \o snapshot \o recording \o comments]
    /\ UNCHANGED <<descriptionVars, overlayVars, optionsVars, content, offscreen>>

\* What the handler awaits settles.  outcome "ok": the request was answered
\* with an OK status (the tab was captured; the offscreen document
\* answered); "status": it was answered with another status
\* (captureAndCropTab returned null; the offscreen document answered
\* ok:false); "throws": the awaited promise was rejected.  A failed issue
\* or comment request is returned as an error; uploadAttachment throws on
\* a failed upload; the offscreen document's answer is not looked at.  A
\* handler that throws rejects its promise, and the listener, which has
\* only .then(sendResponse), sends nothing.
settle(outcome) ==
    /\ worker.step = "awaiting"
    /\ LET awaited == Head(worker.todo)
           rest == IF awaited = "captureAndCropTab" /\ outcome = "status"
                   THEN Tail(Tail(worker.todo))
                   ELSE Tail(worker.todo)
           returns == /\ outcome = "status"
                      /\ awaited \in {"issue", "comment"}
           throws == \/ outcome = "throws" /\ awaited # "sendToOffscreen"
                     \/ outcome = "status" /\ awaited = "uploadAttachment"
       IN worker' =
              IF returns
              THEN [worker EXCEPT
                       !.step = "done",
                       !.responses = Append(@,
                           [ok |-> FALSE,
                            error |-> IF awaited = "issue" THEN "Jira error"
                                      ELSE "Jira comment error"])]
              ELSE IF throws THEN [worker EXCEPT !.step = "rejected"]
              ELSE IF rest = <<>>
                   THEN [worker EXCEPT
                            !.step = "done", !.todo = rest,
                            !.responses = Append(@, [ok |-> TRUE,
                                                     error |-> "null"])]
              ELSE [worker EXCEPT
                       !.todo = rest,
                       !.requests =
                           IF Head(rest) \in {"captureAndCropTab",
                                              "sendToOffscreen"}
                           THEN @ ELSE Append(@, Head(rest))]
    /\ UNCHANGED <<descriptionVars, overlayVars, optionsVars, content, offscreen>>

NextJira ==
    \/ /\ worker.step = "idle"
       /\ \E baseUrl \in {null, <<>>, <<"h", "t", "t", "p", "s", ":", "/", "/", "j", ".", "i", "o", "/">>},
             email \in {null, <<"a", "@", "b">>}, token \in {<<>>, <<"t">>},
             projectKey \in {null, <<>>, <<"Q", "A">>},
             summary \in {null, <<>>, <<" ">>, <<" ", "F", "i", "x", " ">>},
             issueType \in {null, <<>>, <<"b", "u", "g">>, <<"B", "u", "g">>, <<"B", "U", "G">>,
                            <<"T", "a", "s", "k">>, <<"b", "u", "g", "s">>},
             snapshot \in {"none", "dataUrl", "rect"},
             recording \in {"none", "dataUrl", "id"},
             comments \in 0..2 :
              handleJiraCreateIssue(
                  [baseUrl |-> baseUrl, email |-> email, token |-> token],
                  [projectKey |-> projectKey, summary |-> summary,
                   issueType |-> issueType, snapshot |-> snapshot,
                   recording |-> recording, comments |-> comments])
    \/ \E outcome \in {"ok", "status", "throws"} : settle(outcome)

\* Every request and every message the handler awaits is settled in the
\* end: answered, or failed.
SpecJira ==
    /\ InitMessages
    /\ [][NextJira]_vars
    /\ WF_vars(\E outcome \in {"ok", "status", "throws"} : settle(outcome))

----------------------------------------------------------------------------
(* Claims about the jira:create-issue handler                              *)

\* C25: every jira:create-issue message gets exactly one response in the
\* end, ok with the issue key or ok:false with an error, on every path:
\* missing configuration, Jira error on creation, failure of the
\* screenshot or recording upload, failure of a comment.
C25_IssueAnswered ==
    /\ [](Len(worker.responses) <= 1)
    /\ [](worker.step \notin {"idle", "awaiting"} =>
              Len(worker.responses) = 1)
    /\ (worker.step # "idle") ~> (Len(worker.responses) = 1)

\* The spellings of 'bug' in any case.
BugInAnyCase ==
    {<<b, u, g>> : b \in {"b", "B"}, u \in {"u", "U"}, g \in {"g", "G"}}

\* C30: handleJiraCreateIssue sends no HTTP request and returns ok:false
\* with 'Missing Jira configuration.', 'Missing project key.' or 'Missing
\* summary.' whenever the configuration lacks base URL, email or token,
\* the project key is empty, or the summary is empty after trimming, in
\* that order; the issue type sent is 'Bug' exactly when the requested
\* type is 'bug' in any case, and 'Task' otherwise.
C30_ChecksBeforeRequest ==
    worker.step # "idle" =>
        LET lacks == \E f \in {"baseUrl", "email", "token"} :
                         worker.config[f] \in {null, <<>>}
            refused(error) ==
                /\ worker.requests = <<>>
                /\ worker.step = "done"
                /\ worker.responses = <<[ok |-> FALSE, error |-> error]>>
        IN CASE lacks -> refused("Missing Jira configuration.")
             [] ~lacks /\ worker.message.projectKey \in {null, <<>>} ->
                    refused("Missing project key.")
             [] /\ ~lacks
                /\ worker.message.projectKey \notin {null, <<>>}
                /\ \/ worker.message.summary = null
                   \/ \A i \in DOMAIN worker.message.summary :
                          worker.message.summary[i] \in SpaceSet ->
                    refused("Missing summary.")
             [] OTHER ->
                    /\ Len(worker.requests) >= 1
                    /\ worker.requests[1] = "issue"
                    /\ worker.issueType =
                           IF worker.message.issueType \in BugInAnyCase
                           THEN "Bug" ELSE "Task"

\* The handler passed a message whose type is BUG and whose summary has
\* blanks around it, and posted the issue as a Bug.
C30_Witness ==
    /\ worker.step = "done"
    /\ worker.message.issueType = <<"B", "U", "G">>
    /\ worker.message.summary = <<" ", "F", "i", "x", " ">>
    /\ worker.issueType = "Bug"
    /\ Len(worker.requests) > 1
    /\ worker.responses = <<[ok |-> TRUE, error |-> "null"]>>
====
